---- MODULE Spec2Model ----
(***************************************************************************)
(* Verification model of mediabin: the download scheduler of               *)
(* MediabinDaemon (mediabin_daemon.py), the daemon host's single-instance  *)
(* lifecycle (daemon/daemon.py, cli.py), the per-connection dispatch of    *)
(* Daemon.handle_client, the framing of send_pickle and recv_pickle, the   *)
(* listings of the complete items (mediabin_daemon.py, server.py), the     *)
(* migration tool (migration/migrate.py), the artifact directories of      *)
(* ytdlp_downloader/downloader.py and the registry of Daemon.command.      *)
(***************************************************************************)
EXTENDS Integers, Sequences, FiniteSets, Bags, TLC

\* ------------------------------------------------------------------ bounds
\* further URLs that are pages of media source 1
NumAliases == 1

\* mediabin_daemon.py line 58: self.max_concurrent_downloads = 3
max_concurrent_downloads == 3

\* the media sources: one more than the scheduler may download at a time, so that a
\* row has to wait for a free slot
NumIds == max_concurrent_downloads + 1
\* number of command-line invocations (each spawns at most one daemon process)
NumCli == 3
\* number of client connections
NumConns == 2
\* number of Calls the clients send, and of write calls to sys.stdout and sys.stderr
\* made by handlers and by the other threads, over all connections
MaxCalls == 2
MaxWrites == 2
\* the media sources clients enqueue while on_stop and list_current_procs are observed,
\* and the number of enqueue requests made
NumQueued == 2
MaxEnqueues == 3
\* number of frames the handler sends on the connection observed byte by byte, and
\* the longest text of a write
MaxFrames == 2
MaxText == 1
\* number of rows of media.media the listings read, and the latest timestamp
\* number of versions the migrations directory may hold
NumVersions == 3
NumRows == 2
MaxTime == 2
\* number of source ids each extractor knows
NumSources == 2
\* number of function names under which handlers are registered
NumNames == 3
Ids == 1..NumIds
\* URLs a client may enqueue: url 0 is one the metadata probe cannot resolve, url i
\* is the page of media source i, and the urls above NumIds are further pages of
\* source 1
Urls == 0..(NumIds + NumAliases)
QueuedUrls == 0..NumQueued
None == 0
Statuses == {"pending", "downloading", "complete", "error"}

VARIABLES
    media,                    \* table media.media of the ledger: a bag of rows [id, status]
    daemon,                   \* "down", "init" (inside on_spawn), "up"
    current_downloads,        \* keys of self.current_downloads
    current_statuses,         \* self.current_statuses: id -> status, "absent" when no key
    lock_current_downloads,   \* owner of self._lock_current_downloads
    lock_current_statuses,    \* owner of self._lock_current_statuses
    new_in_queue,             \* threading.Event
    wpc,                      \* position of _worker_thread_proc
    wid,                      \* the row the worker selected (None when none)
    job,                      \* per id: the download thread of its YTDLPDownloader
    dup_enqueued,             \* history: an enqueue has met a row with the same id
    orphaned                  \* history: ids 'downloading' when the daemon was killed,
                              \*          until the next daemon promotes a row

schedVars == <<media, daemon, current_downloads, current_statuses,
               lock_current_downloads, lock_current_statuses, new_in_queue,
               wpc, wid, job, dup_enqueued, orphaned>>

VARIABLES
    pid_file,                 \* content of PID_FILE: a pid, None when the file is absent
    socket_file,              \* pid of the daemon that bound SOCKET_FILE, None when absent
    proc,                     \* per daemon process: position, pending SIGTERM, _stop_event
    cli                       \* per command-line invocation: option, position, pid read by
                              \* stop(), and (history) what the pid file recorded when
                              \* main tested is_process_running()

hostVars == <<pid_file, socket_file, proc, cli>>

VARIABLES
    inbox,                    \* per connection: the Calls the client has sent, not yet received
    ncalls,                   \* per connection: number of Calls the client has sent
    hpc,                      \* per connection: position of its handle_client thread
    call,                     \* per connection: number of the Call being served
    result,                   \* per connection: the local `result` of handle_client
    connections,              \* TaggedStreamProxy.connections: thread -> connection
    wire,                     \* per connection: frames sent since the last Call was received
    log,                      \* number of writes that went to the log file
    hwrites,                  \* history: the write calls of the handler of the current Call
    nwrites,                  \* history: number of write calls made by handlers and by
                              \*          the other threads
    outcomes                  \* history, per connection: how the handling of the current
                              \*          Call ended, and whether the handler of an earlier
                              \*          Call raised

connVars == <<inbox, ncalls, hpc, call, result, connections, wire, log, hwrites,
              nwrites, outcomes>>

VARIABLES
    exit_event,               \* self.exit_event (threading.Event)
    spc,                      \* position of on_stop in the main thread
    cancelled,                \* ids of the jobs on which cancel_download has been called
    lpc,                      \* position of a list_current_procs handler
    lsnap,                    \* its locals downloading_ids and pending_ids
    lstart,                   \* history: ids with a pending or downloading row when
                              \*          list_current_procs was called
    listing,                  \* per id: how often the response lists it
    nreq,                     \* history: number of enqueue requests handled
    reply                     \* history: the last enqueue request and what it printed

svcVars == <<exit_event, spc, cancelled, lpc, lsnap, lstart, listing, nreq, reply>>

VARIABLES
    chan,                     \* one connection seen byte by byte: its handle_client
                              \* thread, the class attributes and the locks of the two
                              \* TaggedStreamProxy objects, the bytes in flight and the
                              \* client inside recv_pickle
    qdb,                      \* the tables media.media and media.tags as list_media and
                              \* GET /media/list read them, and the last response
    mig,                      \* the migration tool: the versions directory, the
                              \* database and the position of migrate_to_version
    web                       \* on_spawn's server_options and self._web_server, the rows
                              \* whose object_path the server resolves, and the
                              \* directories that exist under the data directory;
                              \* self._commands and the last call of Daemon.command

unitVars == <<chan, qdb, mig, web>>

vars == <<schedVars, hostVars, connVars, svcVars, unitVars>>

\* ------------------------------------------------------------------ ledger
Row(id, s) == [id |-> id, status |-> s]
RowsWith(m, s) == {r \in DOMAIN m : r.status = s}
RowsOf(m, id) == {r \in DOMAIN m : r.id = id}
IdsWith(m, s) == {r.id : r \in RowsWith(m, s)}
\* SELECT count(*) FROM media.media WHERE status = s
CountWith(m, s) == BagCardinality([r \in RowsWith(m, s) |-> m[r]])
\* SELECT count(*) FROM media.media WHERE id = id
CountOf(m, id) == BagCardinality([r \in RowsOf(m, id) |-> m[r]])

\* UPDATE media.media SET status = s WHERE id = ?
UpdateStatus(m, id, s) ==
    LET rest == [r \in (DOMAIN m) \ RowsOf(m, id) |-> m[r]]
        n == CountOf(m, id)
    IN IF n = 0 THEN rest ELSE rest (+) (Row(id, s) :> n)

\* variant: the table has no unique constraint on id
InsertPending_NoConstraint(m, id) == m (+) SetToBag({Row(id, "pending")})

\* variant: a row with the same id is replaced by the new pending row
InsertPending_Replace(m, id) ==
    IF RowsOf(m, id) # {}
    THEN [r \in (DOMAIN m) \ RowsOf(m, id) |-> m[r]] (+) SetToBag({Row(id, "pending")})
    ELSE m (+) SetToBag({Row(id, "pending")})

\* INSERT INTO media.media (...) VALUES (..., 'pending'); the unique constraint on id
\* rejects a second row with the same id (duckdb.ConstraintException)
InsertPending(m, id) ==
    IF RowsOf(m, id) # {}
    THEN m
    ELSE m (+) SetToBag({Row(id, "pending")})

\* variant: startup leaves the rows of the previous daemon alone
_restart_downloading_jobs_Skipped(m) == m

\* UPDATE media.media SET status = 'pending' WHERE status = 'downloading'
_restart_downloading_jobs(m) ==
    LET keep == [r \in (DOMAIN m) \ RowsWith(m, "downloading") |-> m[r]]
        moved == [r \in {Row(x.id, "pending") : x \in RowsWith(m, "downloading")}
                    |-> m[Row(r.id, "downloading")]]
    IN keep (+) moved

\* YTDLPDownloader.fetch_info(url).mb_identifier: None when the probe fails; two
\* URLs of the same media source resolve to the same id
fetch_info(u) == IF u = 0 THEN None ELSE IF u > NumIds THEN 1 ELSE u

\* owners of a threading.Lock: nobody, the worker thread, the download thread of job j
Free == <<"free">>
WorkerThread == <<"worker">>
JobThread(j) == <<"job", j>>

\* no download thread; a thread's phase ph is "preinfo" (started, process_info not
\* reached), "failed" (ended before process_info), "run" (downloading), "hooked" (the
\* progress hook has reported finished or error) or "raised" (ydl.download raised);
\* cb is its position inside _status_callback and st the status it delivers
NoJob == [ph |-> "none", cb |-> "-", st |-> "-"]

SchedInit ==
    /\ media = EmptyBag
    /\ daemon = "down"
    /\ current_downloads = {}
    /\ current_statuses = [i \in Ids |-> "absent"]
    /\ lock_current_downloads = Free
    /\ lock_current_statuses = Free
    /\ new_in_queue = FALSE
    /\ wpc = "off"
    /\ wid = None
    /\ job = [i \in Ids |-> NoJob]
    /\ dup_enqueued = FALSE
    /\ orphaned = {}

\* ------------------------------------------------------------------ on_spawn / kill
\* on_spawn, lines 50-53: open the ledger, then reset the rows a dead daemon left behind
OnSpawnDb ==
    /\ daemon = "down"
    /\ daemon' = "init"
    /\ media' = _restart_downloading_jobs(media)
    /\ UNCHANGED <<current_downloads, current_statuses, lock_current_downloads,
                   lock_current_statuses, new_in_queue, wpc, wid, job, dup_enqueued, orphaned>>

\* on_spawn, lines 55-66: fresh events, maps and locks, then the worker thread starts
OnSpawnWorker ==
    /\ daemon = "init"
    /\ daemon' = "up"
    /\ new_in_queue' = FALSE
    /\ current_downloads' = {}
    /\ current_statuses' = [i \in Ids |-> "absent"]
    /\ lock_current_downloads' = Free
    /\ lock_current_statuses' = Free
    /\ wpc' = "wait"
    /\ UNCHANGED <<media, wid, job, dup_enqueued, orphaned>>

\* the daemon process is force-killed: every thread and the in-memory maps are gone,
\* the ledger file stays as it is
Kill ==
    /\ daemon \in {"init", "up"}
    /\ daemon' = "down"
    /\ orphaned' = IdsWith(media, "downloading")
    /\ current_downloads' = {}
    /\ current_statuses' = [i \in Ids |-> "absent"]
    /\ lock_current_downloads' = Free
    /\ lock_current_statuses' = Free
    /\ new_in_queue' = FALSE
    /\ wpc' = "off"
    /\ wid' = None
    /\ job' = [i \in Ids |-> NoJob]
    /\ UNCHANGED <<media, dup_enqueued>>

\* ------------------------------------------------------------------ register_new_download
\* variant: the result of the probe is used without the tests of lines 111 and 115
register_new_download_Unchecked(u) ==
    /\ daemon = "up"
    /\ media' = InsertPending(media, fetch_info(u))
    /\ new_in_queue' = TRUE
    /\ dup_enqueued' = (dup_enqueued \/ RowsOf(media, fetch_info(u)) # {})
    /\ UNCHANGED <<daemon, current_downloads, current_statuses,
                   lock_current_downloads, lock_current_statuses,
                   wpc, wid, job, orphaned>>

\* lines 107-136: probe the metadata (a failed probe returns at once); insert the
\* pending row, a ConstraintException is only printed; set the event
register_new_download(u) ==
    /\ daemon = "up"
    /\ LET id == fetch_info(u) IN
         IF id = None
         THEN UNCHANGED <<media, new_in_queue, dup_enqueued>>
         ELSE /\ media' = InsertPending(media, id)
              /\ new_in_queue' = TRUE
              /\ dup_enqueued' = (dup_enqueued \/ RowsOf(media, id) # {})
    /\ UNCHANGED <<daemon, current_downloads, current_statuses,
                   lock_current_downloads, lock_current_statuses,
                   wpc, wid, job, orphaned>>

\* ------------------------------------------------------------------ _worker_thread_proc
\* line 224: while not self.exit_event.is_set();
\* line 226: new_in_queue.wait(timeout) returns True when the event is set, False on timeout
WorkerWait ==
    /\ wpc = "wait"
    /\ ~exit_event
    /\ wpc' = IF new_in_queue THEN "clear" ELSE "lock"
    /\ UNCHANGED <<media, daemon, current_downloads, current_statuses,
                   lock_current_downloads, lock_current_statuses, new_in_queue,
                   wid, job, dup_enqueued, orphaned>>

\* line 227: self.new_in_queue.clear()
WorkerClear ==
    /\ wpc = "clear"
    /\ new_in_queue' = FALSE
    /\ wpc' = "lock"
    /\ UNCHANGED <<media, daemon, current_downloads, current_statuses,
                   lock_current_downloads, lock_current_statuses,
                   wid, job, dup_enqueued, orphaned>>

\* variant: the comparison is off by one
WorkerFull_OffByOne(cd) == Cardinality(cd) > max_concurrent_downloads

\* line 230: len(self.current_downloads) >= self.max_concurrent_downloads
WorkerFull(cd) == Cardinality(cd) >= max_concurrent_downloads

\* lines 229-231: take the downloads lock; with the map full, continue (the lock is released)
WorkerAcquire ==
    /\ wpc = "lock"
    /\ lock_current_downloads = Free
    /\ IF WorkerFull(current_downloads)
       THEN /\ wpc' = "wait"
            /\ UNCHANGED lock_current_downloads
       ELSE /\ wpc' = "select"
            /\ lock_current_downloads' = WorkerThread
    /\ UNCHANGED <<media, daemon, current_downloads, current_statuses,
                   lock_current_statuses, new_in_queue,
                   wid, job, dup_enqueued, orphaned>>

\* lines 233-237: SELECT ... WHERE status = 'pending', fetchone(); no row: continue
WorkerSelect ==
    /\ wpc = "select"
    /\ IF RowsWith(media, "pending") = {}
       THEN /\ wpc' = "wait"
            /\ lock_current_downloads' = Free
            /\ UNCHANGED wid
       ELSE /\ \E r \in RowsWith(media, "pending") : wid' = r.id
            /\ wpc' = "update"
            /\ UNCHANGED lock_current_downloads
    /\ UNCHANGED <<media, daemon, current_downloads, current_statuses,
                   lock_current_statuses, new_in_queue,
                   job, dup_enqueued, orphaned>>

\* variant: the row is marked outside the critical section (the lock is given up
\* before the job is in current_downloads)
WorkerPromote_Unlocked ==
    /\ wpc = "update"
    /\ media' = UpdateStatus(media, wid, "downloading")
    /\ lock_current_downloads' = Free
    /\ orphaned' = {}
    /\ wpc' = "insD"
    /\ UNCHANGED <<daemon, current_downloads, current_statuses,
                   lock_current_statuses, new_in_queue, wid, job, dup_enqueued>>

\* line 238: UPDATE media.media SET status = 'downloading' WHERE id = ?
WorkerPromote ==
    /\ wpc = "update"
    /\ media' = UpdateStatus(media, wid, "downloading")
    /\ orphaned' = {}
    /\ wpc' = "insD"
    /\ UNCHANGED <<daemon, current_downloads, current_statuses,
                   lock_current_downloads, lock_current_statuses, new_in_queue,
                   wid, job, dup_enqueued>>

\* lines 240-243: self.current_downloads[id] = new_job
WorkerInsertDownloads ==
    /\ wpc = "insD"
    /\ current_downloads' = current_downloads \cup {wid}
    /\ wpc' = "insS"
    /\ UNCHANGED <<media, daemon, current_statuses,
                   lock_current_downloads, lock_current_statuses, new_in_queue,
                   wid, job, dup_enqueued, orphaned>>

\* line 244: self.current_statuses[id] = StatusPending() (the statuses lock is not taken)
WorkerInsertStatuses ==
    /\ wpc = "insS"
    /\ current_statuses' = [current_statuses EXCEPT ![wid] = "Pending"]
    /\ wpc' = "start"
    /\ UNCHANGED <<media, daemon, current_downloads,
                   lock_current_downloads, lock_current_statuses, new_in_queue,
                   wid, job, dup_enqueued, orphaned>>

\* line 246 and start_download, downloader.py 164-173: the download thread starts; the
\* worker then waits for the info dict (line 175), still holding the downloads lock
WorkerStart ==
    /\ wpc = "start"
    /\ job' = [job EXCEPT ![wid] = [ph |-> "preinfo", cb |-> "-", st |-> "-"]]
    /\ wpc' = "waitinfo"
    /\ UNCHANGED <<media, daemon, current_downloads, current_statuses,
                   lock_current_downloads, lock_current_statuses, new_in_queue,
                   wid, dup_enqueued, orphaned>>

\* the info dict is there once process_info has run
InfoReady(j) == job[j].ph \in {"run", "hooked", "raised"}

\* downloader.py 175-177 and the end of the with block: start_download returns, the
\* downloads lock is released and the loop goes round
WorkerInfoReady ==
    /\ wpc = "waitinfo"
    /\ InfoReady(wid)
    /\ lock_current_downloads' = Free
    /\ wpc' = "wait"
    /\ wid' = None
    /\ UNCHANGED <<media, daemon, current_downloads, current_statuses,
                   lock_current_statuses, new_in_queue,
                   job, dup_enqueued, orphaned>>

\* ------------------------------------------------------------------ download thread
\* _download_target, lines 126-130 and 147-151: the download fails before process_info
\* has run; the statuses it posts carry no info, so _status_callback returns at once
\* (mediabin_daemon.py 191-192) and the info dict never becomes ready
JobFailEarly(j) ==
    /\ job[j].ph = "preinfo"
    /\ job' = [job EXCEPT ![j].ph = "failed"]
    /\ UNCHANGED <<media, daemon, current_downloads, current_statuses,
                   lock_current_downloads, lock_current_statuses, new_in_queue,
                   wpc, wid, dup_enqueued, orphaned>>

\* CustomDownloader.process_info, lines 24-42: the info callback sets the ready event
JobProcessInfo(j) ==
    /\ job[j].ph = "preinfo"
    /\ job' = [job EXCEPT ![j].ph = "run"]
    /\ UNCHANGED <<media, daemon, current_downloads, current_statuses,
                   lock_current_downloads, lock_current_statuses, new_in_queue,
                   wpc, wid, dup_enqueued, orphaned>>

\* the status _progress_hook posts for d['status'], lines 100-124
HookStatus(d) ==
    CASE d = "downloading" -> "Downloading"
      [] d = "finished" -> "Finished"
      [] d = "error" -> "Error"

\* the phase of the download thread once the hook has posted for d['status']
HookPhase(d) ==
    CASE d = "downloading" -> "run"
      [] d = "finished" -> "hooked"
      [] d = "error" -> "hooked"

\* _progress_hook posts a status and _status_callback is entered with it:
\* `with self._lock_current_statuses, ...` takes the statuses lock first (line 195)
JobHook(j, d) ==
    /\ job[j].ph = "run"
    /\ job[j].cb = "-"
    /\ lock_current_statuses = Free
    /\ lock_current_statuses' = JobThread(j)
    /\ job' = [job EXCEPT ![j] = [ph |-> HookPhase(d), cb |-> "lockS", st |-> HookStatus(d)]]
    /\ UNCHANGED <<media, daemon, current_downloads, current_statuses,
                   lock_current_downloads, new_in_queue,
                   wpc, wid, dup_enqueued, orphaned>>

\* _download_target, lines 147-151: ydl.download raises (also after the hook has
\* reported finished or error) and StatusError is posted; the callback is entered
JobRaise(j) ==
    /\ job[j].ph \in {"run", "hooked"}
    /\ job[j].cb = "-"
    /\ lock_current_statuses = Free
    /\ lock_current_statuses' = JobThread(j)
    /\ job' = [job EXCEPT ![j] = [ph |-> "raised", cb |-> "lockS", st |-> "Error"]]
    /\ UNCHANGED <<media, daemon, current_downloads, current_statuses,
                   lock_current_downloads, new_in_queue,
                   wpc, wid, dup_enqueued, orphaned>>

\* ydl.download returns after the hook reported finished or error: the thread ends
JobReturn(j) ==
    /\ job[j].ph = "hooked"
    /\ job[j].cb = "-"
    /\ job' = [job EXCEPT ![j] = NoJob]
    /\ UNCHANGED <<media, daemon, current_downloads, current_statuses,
                   lock_current_downloads, lock_current_statuses, new_in_queue,
                   wpc, wid, dup_enqueued, orphaned>>

\* ------------------------------------------------------------------ _status_callback
\* the download thread when the callback is left: after the exception handler of
\* _download_target (lines 147-152) the thread is over
AfterCallback(jb) ==
    IF jb.ph = "raised" THEN NoJob ELSE [ph |-> jb.ph, cb |-> "-", st |-> "-"]

\* line 195: the second lock of the with statement, the downloads lock
CbLockDownloads(j) ==
    /\ job[j].cb = "lockS"
    /\ lock_current_downloads = Free
    /\ lock_current_downloads' = JobThread(j)
    /\ job' = [job EXCEPT ![j].cb = "lockD"]
    /\ UNCHANGED <<media, daemon, current_downloads, current_statuses,
                   lock_current_statuses, new_in_queue,
                   wpc, wid, dup_enqueued, orphaned>>

\* lines 198-201: StatusPending / StatusDownloading: record it, leave the with block
CbSetStatus(j) ==
    /\ job[j].cb = "lockD"
    /\ job[j].st \in {"Pending", "Downloading"}
    /\ current_statuses' = [current_statuses EXCEPT ![j] = job[j].st]
    /\ lock_current_downloads' = Free
    /\ lock_current_statuses' = Free
    /\ job' = [job EXCEPT ![j] = AfterCallback(@)]
    /\ UNCHANGED <<media, daemon, current_downloads, new_in_queue,
                   wpc, wid, dup_enqueued, orphaned>>

\* the ledger status written for a terminal status, lines 203 and 208
TerminalStatus(st) == IF st = "Finished" THEN "complete" ELSE "error"

\* variant: the entry is removed first, the ledger is written afterwards
CbLedger_RemoveFirst(j) ==
    /\ job[j].cb = "lockD"
    /\ job[j].st \in {"Finished", "Error"}
    /\ current_downloads' = current_downloads \ {j}
    /\ job' = [job EXCEPT ![j].cb = "delD"]
    /\ UNCHANGED <<media, daemon, current_statuses,
                   lock_current_downloads, lock_current_statuses, new_in_queue,
                   wpc, wid, dup_enqueued, orphaned>>

\* lines 203 / 208: UPDATE media.media SET status = 'error' | 'complete' WHERE id = ?
CbLedger(j) ==
    /\ job[j].cb = "lockD"
    /\ job[j].st \in {"Finished", "Error"}
    /\ media' = UpdateStatus(media, j, TerminalStatus(job[j].st))
    /\ job' = [job EXCEPT ![j].cb = "updated"]
    /\ UNCHANGED <<daemon, current_downloads, current_statuses,
                   lock_current_downloads, lock_current_statuses, new_in_queue,
                   wpc, wid, dup_enqueued, orphaned>>

\* variant: the job is never taken out of current_downloads
CbDelDownloads_Forgotten(j) ==
    /\ job[j].cb = "updated"
    /\ job' = [job EXCEPT ![j].cb = "delD"]
    /\ UNCHANGED <<media, daemon, current_downloads, current_statuses,
                   lock_current_downloads, lock_current_statuses, new_in_queue,
                   wpc, wid, dup_enqueued, orphaned>>

\* lines 204 / 209: del self.current_downloads[id]; a missing key raises KeyError, which
\* leaves the with block (both locks released) and the callback
CbDelDownloads(j) ==
    /\ job[j].cb = "updated"
    /\ IF j \in current_downloads
       THEN /\ current_downloads' = current_downloads \ {j}
            /\ job' = [job EXCEPT ![j].cb = "delD"]
            /\ UNCHANGED <<lock_current_downloads, lock_current_statuses>>
       ELSE /\ lock_current_downloads' = Free
            /\ lock_current_statuses' = Free
            /\ job' = [job EXCEPT ![j] = AfterCallback(@)]
            /\ UNCHANGED current_downloads
    /\ UNCHANGED <<media, daemon, current_statuses, new_in_queue,
                   wpc, wid, dup_enqueued, orphaned>>

\* lines 205 / 210: del self.current_statuses[id] (KeyError when the key is missing),
\* then the with block ends and both locks are released
CbDelStatuses(j) ==
    /\ job[j].cb = "delD"
    /\ current_statuses' = [current_statuses EXCEPT ![j] = "absent"]
    /\ lock_current_downloads' = Free
    /\ lock_current_statuses' = Free
    /\ job' = [job EXCEPT ![j] = AfterCallback(@)]
    /\ UNCHANGED <<media, daemon, current_downloads, new_in_queue,
                   wpc, wid, dup_enqueued, orphaned>>

\* ------------------------------------------------------------------ scheduler properties
\* the statuses of the rows with this id (one status, unless the id has no row)
StatusesOf(m, id) == {r.status : r \in RowsOf(m, id)}
StatusOf(m, id) == IF RowsOf(m, id) = {} THEN "absent" ELSE CHOOSE s \in StatusesOf(m, id) : TRUE

\* ------------------------------------------------------------------ on_stop, listing, replies
\* further owners of a threading.Lock: the main thread (on_stop) and the handler thread
\* of a list_current_procs command
MainThread == <<"main">>
ListThread == <<"list">>

NoSnap == [dl |-> {}, pd |-> {}]
NoReply == [url |-> 0, msg |-> "-"]

SvcInit ==
    /\ exit_event = FALSE
    /\ spc = "idle"
    /\ cancelled = {}
    /\ lpc = "idle"
    /\ lsnap = NoSnap
    /\ lstart = {}
    /\ listing = [i \in Ids |-> 0]
    /\ nreq = 0
    /\ reply = NoReply

\* what register_new_download prints: lines 112 and 116 ("Failed to get url"), line 134
\* ("already downloaded or is currently in the queue"), nothing after an insertion
RegisterMessage(m, u) ==
    IF fetch_info(u) = None THEN "failed to get url"
    ELSE IF RowsOf(m, fetch_info(u)) # {} THEN "already in the queue"
    ELSE "-"

\* a client enqueues url u: register_new_download together with what it prints; the
\* handler returns None on every path
Enqueue(u) ==
    /\ nreq < MaxEnqueues
    /\ register_new_download(u)
    /\ nreq' = nreq + 1
    /\ reply' = [url |-> u, msg |-> RegisterMessage(media, u)]
    /\ UNCHANGED <<exit_event, spc, cancelled, lpc, lsnap, lstart, listing>>

\* line 224: the loop test finds exit_event set and _worker_thread_proc returns
WorkerExit ==
    /\ wpc = "wait"
    /\ exit_event
    /\ wpc' = "exited"
    /\ UNCHANGED <<media, daemon, current_downloads, current_statuses,
                   lock_current_downloads, lock_current_statuses, new_in_queue,
                   wid, job, dup_enqueued, orphaned>>
    /\ UNCHANGED svcVars

\* on_spawn, lines 68-71, called with server_options: create_app, make_server on
\* port 8080 and the thread that runs serve_forever; then on_spawn returns
OnSpawnWeb(server_options) ==
    /\ daemon = "up"
    /\ web.server = "none"
    /\ web' = [web EXCEPT !.server_options = server_options, !.server = "serving"]

\* Daemon.run, finally: self.on_stop() is called; run() begins when on_spawn has returned
OnStopCall ==
    /\ daemon = "up"
    /\ web.server # "none"
    /\ spc = "idle"
    /\ spc' = "lock"
    /\ UNCHANGED schedVars
    /\ UNCHANGED <<exit_event, cancelled, lpc, lsnap, lstart, listing, nreq, reply>>

\* line 213: with self._lock_current_downloads
OnStopAcquire ==
    /\ spc = "lock"
    /\ lock_current_downloads = Free
    /\ lock_current_downloads' = MainThread
    /\ spc' = "cancel"
    /\ UNCHANGED <<media, daemon, current_downloads, current_statuses,
                   lock_current_statuses, new_in_queue, wpc, wid, job,
                   dup_enqueued, orphaned>>
    /\ UNCHANGED <<exit_event, cancelled, lpc, lsnap, lstart, listing, nreq, reply>>

\* lines 214-215: job.cancel_download() for every job in current_downloads; the with
\* block ends
OnStopCancel ==
    /\ spc = "cancel"
    /\ cancelled' = cancelled \cup current_downloads
    /\ lock_current_downloads' = Free
    /\ spc' = "shutdown"
    /\ UNCHANGED <<media, daemon, current_downloads, current_statuses,
                   lock_current_statuses, new_in_queue, wpc, wid, job,
                   dup_enqueued, orphaned>>
    /\ UNCHANGED <<exit_event, lpc, lsnap, lstart, listing, nreq, reply>>

\* lines 217-218: self._web_server.shutdown(); self.exit_event.set()
OnStopSetExit ==
    /\ spc = "shutdown"
    /\ web' = [web EXCEPT !.server = "shutdown"]
    /\ exit_event' = TRUE
    /\ spc' = "join"
    /\ UNCHANGED schedVars
    /\ UNCHANGED <<cancelled, lpc, lsnap, lstart, listing, nreq, reply>>

\* lines 220-221: self._worker_thread.join() returns once the worker has ended
OnStopJoined ==
    /\ spc = "join"
    /\ wpc = "exited"
    /\ spc' = "returned"
    /\ UNCHANGED schedVars
    /\ UNCHANGED <<exit_event, cancelled, lpc, lsnap, lstart, listing, nreq, reply>>

\* rows of the ledger a listing is about: pending or downloading
Unfinished(m) == IdsWith(m, "pending") \cup IdsWith(m, "downloading")

\* a client calls list_current_procs
ListCall ==
    /\ daemon = "up"
    /\ lpc \in {"idle", "done"}
    /\ lpc' = "lock"
    /\ lstart' = Unfinished(media)
    /\ lsnap' = NoSnap
    /\ listing' = [i \in Ids |-> 0]
    /\ UNCHANGED schedVars
    /\ UNCHANGED <<exit_event, spc, cancelled, nreq, reply>>

\* line 144: with self._lock_current_statuses
ListAcquire ==
    /\ lpc = "lock"
    /\ lock_current_statuses = Free
    /\ lock_current_statuses' = ListThread
    /\ lpc' = "snap"
    /\ UNCHANGED <<media, daemon, current_downloads, current_statuses,
                   lock_current_downloads, new_in_queue, wpc, wid, job,
                   dup_enqueued, orphaned>>
    /\ UNCHANGED <<exit_event, spc, cancelled, lsnap, lstart, listing, nreq, reply>>

\* lines 145-146: downloading_ids and pending_ids are read from current_statuses
ListSnapshot ==
    /\ lpc = "snap"
    /\ lsnap' = [dl |-> {i \in Ids : current_statuses[i] = "Downloading"},
                 pd |-> {i \in Ids : current_statuses[i] = "Pending"}]
    /\ lpc' = "query"
    /\ UNCHANGED schedVars
    /\ UNCHANGED <<exit_event, spc, cancelled, lstart, listing, nreq, reply>>

\* how often the response lists id i: once per row with an id in downloading_ids
\* (lines 148-150), once per row with status 'pending' and once per row with an id in
\* pending_ids (lines 153-157, UNION ALL)
Listed(m, snap, i) ==
    (IF i \in snap.dl THEN CountOf(m, i) ELSE 0)
    + (IF StatusOf(m, i) = "pending" THEN CountOf(m, i) ELSE 0)
    + (IF i \in snap.pd THEN CountOf(m, i) ELSE 0)

\* lines 148-162: the two queries, the response, and the end of the with block
ListQuery ==
    /\ lpc = "query"
    /\ listing' = [i \in Ids |-> Listed(media, lsnap, i)]
    /\ lock_current_statuses' = Free
    /\ lpc' = "done"
    /\ UNCHANGED <<media, daemon, current_downloads, current_statuses,
                   lock_current_downloads, new_in_queue, wpc, wid, job,
                   dup_enqueued, orphaned>>
    /\ UNCHANGED <<exit_event, spc, cancelled, lsnap, lstart, nreq, reply>>

\* C1: at every instant the number of rows with status 'downloading' and the size of
\* current_downloads are both at most max_concurrent_downloads
C1_BoundedConcurrency ==
    /\ CountWith(media, "downloading") <= max_concurrent_downloads
    /\ Cardinality(current_downloads) <= max_concurrent_downloads

\* the bound is reached while a further row is waiting
C1_Witness ==
    /\ daemon = "up"
    /\ lock_current_downloads = Free
    /\ Cardinality(current_downloads) = max_concurrent_downloads
    /\ CountWith(media, "downloading") = max_concurrent_downloads
    /\ RowsWith(media, "pending") # {}

\* C33 as stated: the number of rows with status 'downloading' plus the size of
\* current_downloads never exceeds max_concurrent_downloads
C33_SumWithinBound ==
    CountWith(media, "downloading") + Cardinality(current_downloads)
        <= max_concurrent_downloads

\* C33: in a run with more enqueues than the bound, the number of rows with status
\* 'downloading' plus the size of current_downloads never exceeds twice
\* max_concurrent_downloads, each of the two being at most max_concurrent_downloads
C33_SumWithinTwiceBound ==
    LET rows == CountWith(media, "downloading")
        jobs == Cardinality(current_downloads)
    IN /\ rows + jobs <= 2 * max_concurrent_downloads
       /\ IF rows >= jobs THEN rows <= max_concurrent_downloads
                           ELSE jobs <= max_concurrent_downloads

\* more rows than the bound have been enqueued and both numbers are at the bound
C33_Witness ==
    /\ BagCardinality(media) > max_concurrent_downloads
    /\ CountWith(media, "downloading") + Cardinality(current_downloads)
          = 2 * max_concurrent_downloads
    /\ wpc = "wait"

\* C34: a thread that holds both scheduler locks took the downloads lock first: no
\* thread acquires the downloads lock while it holds the statuses lock
C34_DownloadsLockFirst ==
    [][(lock_current_downloads' # lock_current_downloads /\ lock_current_downloads' # Free)
          => (lock_current_statuses # lock_current_downloads')]_vars

\* C35: while the daemon runs, the entry of id i in current_statuses is written only
\* by a thread that holds the statuses lock (the status callback of job i), and
\* current_downloads only by a thread that holds the downloads lock
C35_MapsChangeUnderTheirLocks ==
    [][(daemon = "up" /\ daemon' = "up") =>
          /\ \A i \in Ids : (current_statuses'[i] # current_statuses[i])
                                => (lock_current_statuses = JobThread(i))
          /\ (current_downloads' # current_downloads)
                => (lock_current_downloads # Free)]_vars

\* C38: a status delivered for an id that has no entry in current_downloads leaves
\* the ledger, current_downloads and current_statuses as they are
C38_StrayStatusChangesNothing ==
    [][\A j \in Ids :
          (/\ daemon' = "up"
           /\ job[j].cb \in {"lockS", "lockD", "updated"}
           /\ j \notin current_downloads
           /\ job'[j] # job[j])
          => (/\ media' = media
              /\ current_downloads' = current_downloads
              /\ current_statuses' = current_statuses)]_vars

\* C2: whatever register_new_download calls have run, also for URLs that resolve to
\* the same id, the ledger never holds two rows with the same id
C2_UniqueId == \A id \in Ids : CountOf(media, id) <= 1

\* a second URL of source 1 has been enqueued while source 1 had its row
C2_Witness ==
    /\ dup_enqueued
    /\ CountOf(media, 1) = 1
    /\ StatusOf(media, 1) = "complete"

\* a status change of one row that the scheduler is meant to make
AllowedTransition(s, t) ==
    \/ s = t
    \/ s = "absent" /\ t = "pending"
    \/ s = "pending" /\ t = "downloading" /\ daemon = "up"
    \/ s = "downloading" /\ t \in {"complete", "error"} /\ daemon = "up"
    \/ s = "downloading" /\ t = "pending" /\ daemon = "down" /\ daemon' = "init"

\* C3: the only status transitions are pending -> downloading, downloading -> complete,
\* downloading -> error and, at startup only, downloading -> pending; a complete or
\* error row never changes again
C3_MonotoneStatus ==
    [][\A id \in Ids : AllowedTransition(StatusOf(media, id), StatusOf(media', id))]_vars

\* C4: when a daemon has been killed with rows 'downloading', then in the next daemon,
\* until its worker promotes a row, those rows are 'pending' and both maps are empty
C4_CrashRecovery ==
    (daemon = "up" /\ orphaned # {}) =>
        /\ \A id \in orphaned : StatusesOf(media, id) = {"pending"}
        /\ CountWith(media, "downloading") = 0
        /\ current_downloads = {}
        /\ \A id \in Ids : current_statuses[id] = "absent"

\* the new worker is about to select its first row, with rows recovered
C4_Witness ==
    /\ daemon = "up"
    /\ orphaned # {}
    /\ wpc = "select"

\* C5: whenever the downloads lock is free, every id in current_downloads has a row
\* with status 'downloading'
C5_JobsAreDownloading ==
    lock_current_downloads = Free =>
        \A id \in current_downloads : StatusesOf(media, id) = {"downloading"}

\* a job has finished and been removed, others are still in the map, the lock is free
C5_Witness ==
    /\ daemon = "up"
    /\ lock_current_downloads = Free
    /\ current_downloads # {}
    /\ RowsWith(media, "complete") # {}
    /\ RowsWith(media, "error") # {}

\* C6: a row 'downloading' whose job is not yet in current_downloads is seen only while
\* the worker holds the downloads lock for that very row, and within one daemon
\* lifetime a row is promoted only from 'pending' and never becomes 'pending' again
C6_AtomicPromotionOnce ==
    /\ [](daemon = "up" =>
            \A id \in Ids :
                (id \in IdsWith(media, "downloading") /\ id \notin current_downloads) =>
                    (lock_current_downloads = WorkerThread /\ wid = id /\ wpc = "insD"))
    /\ [][(media' # media /\ daemon = "up" /\ daemon' = "up") =>
            \A id \in Ids :
                /\ (StatusOf(media', id) = "downloading" /\ StatusOf(media, id) # "downloading")
                       => StatusOf(media, id) = "pending"
                /\ StatusOf(media, id) \in {"downloading", "complete", "error"}
                       => StatusOf(media', id) # "pending"]_vars

\* the row is marked, the job not yet inserted, and a status callback of another job
\* is waiting for the downloads lock
C6_Witness ==
    /\ wpc = "insD"
    /\ wid \in IdsWith(media, "downloading")
    /\ wid \notin current_downloads
    /\ \E j \in Ids : j # wid /\ job[j].cb = "lockS"

\* C7: a terminal event writes 'complete' or 'error' to the ledger before it removes the
\* id from current_downloads and current_statuses: an id whose row is 'downloading' is
\* in both maps, unless the worker is just inserting it
C7_LedgerBeforeRemoval ==
    /\ \A j \in Ids : job[j].cb = "delD" =>
           StatusesOf(media, j) = {TerminalStatus(job[j].st)}
    /\ daemon = "up" =>
           \A id \in IdsWith(media, "downloading") :
               \/ id \in current_downloads /\ current_statuses[id] # "absent"
               \/ wid = id /\ wpc \in {"insD", "insS"}

\* a Finished event has written 'complete' and removed the job from current_downloads
C7_Witness ==
    \E j \in Ids :
        /\ job[j].cb = "delD"
        /\ job[j].st = "Finished"
        /\ j \notin current_downloads
        /\ current_statuses[j] # "absent"
        /\ StatusesOf(media, j) = {"complete"}

\* ------------------------------------------------------------------ service properties
\* the worker holds the downloads lock inside start_download and waits for an info dict
\* that no thread will deliver: the download thread ended before process_info
DownloadsLockStuck ==
    /\ lock_current_downloads = WorkerThread
    /\ wpc = "waitinfo"
    /\ job[wid].ph = "failed"

\* C15: a thread that requests the downloads lock (a status callback, which already
\* holds the statuses lock, or on_stop) gets it: the lock is never requested while its
\* holder, the worker inside the call that starts a download, can no longer release it
C15_LocksAreGranted ==
    (spc = "lock" \/ \E j \in Ids : job[j].cb = "lockS") => ~DownloadsLockStuck

\* C16: when on_stop has returned, cancel has been requested on every job in
\* current_downloads, exit_event is set and the worker has ended; and once on_stop has
\* requested the cancellations no further job enters current_downloads
C16_StopIsFinal ==
    [][/\ (spc \in {"shutdown", "join", "returned"})
            => (current_downloads' \subseteq current_downloads)
       /\ (spc' = "returned")
            => (current_downloads' \subseteq cancelled' /\ exit_event' /\ wpc' = "exited")]_vars

\* C39: start_download returns: a worker that waits for the info dict of the
\* download it started, holding the downloads lock, eventually goes on
C39_StartDownloadReturns ==
    (wpc = "waitinfo") ~> (wpc # "waitinfo")

\* C17: in a daemon that keeps running and whose download threads all end with a
\* terminal report, every pending row is eventually promoted
C17_PendingIsPromoted ==
    \A id \in Ids : (StatusOf(media, id) = "pending") ~> (StatusOf(media, id) # "pending")

\* C18: an enqueue of a URL whose id already has a row leaves the ledger as it is,
\* whatever the status of that row, and prints the notice that the URL is already
\* downloaded or queued
C18_DuplicateLeavesRow ==
    [][(/\ nreq' # nreq
        /\ fetch_info(reply'.url) # None
        /\ RowsOf(media, fetch_info(reply'.url)) # {})
       => (media' = media /\ reply'.msg = "already in the queue")]_vars

\* the last enqueue met the row of a finished download, which is still complete
C18_Witness ==
    /\ reply.msg = "already in the queue"
    /\ StatusesOf(media, fetch_info(reply.url)) = {"complete"}

\* C19: an enqueue whose metadata probe yields nothing, or no identifier, inserts no
\* row, changes no row, does not set the event, and prints that the URL could not be
\* fetched
C19_FailedProbeChangesNothing ==
    [][(nreq' # nreq /\ fetch_info(reply'.url) = None)
       => (/\ media' = media
           /\ new_in_queue' = new_in_queue
           /\ reply'.msg = "failed to get url")]_vars

\* the last enqueue could not be probed, while the ledger holds a row and no event is
\* pending
C19_Witness ==
    /\ reply = [url |-> 0, msg |-> "failed to get url"]
    /\ StatusOf(media, 1) = "downloading"
    /\ ~new_in_queue

\* C20: the response of list_current_procs lists every item that was pending or
\* in flight during the whole call exactly once, and no item more than once
C20_ListingComplete ==
    lpc = "done" =>
        \A i \in Ids :
            /\ listing[i] <= 1
            /\ (i \in lstart /\ i \in Unfinished(media)) => listing[i] = 1

\* C30: the HTTP server of the media is created, and its port bound, only in a daemon
\* whose on_spawn was given server options
C30_ServerOnlyWhenRequested ==
    web.server # "none" => web.server_options # "None"

\* C21: a download thread whose progress hook has posted its terminal status (Finished
\* or Error) posts no further status: no callback is entered for it again
C21_OneTerminalStatus ==
    [][\A j \in Ids :
          (job[j].ph = "hooked" /\ job[j].cb = "-") => job'[j].cb # "lockS"]_vars

\* ------------------------------------------------------------------ service lifecycle
\* The invocations of the command line (cli.py main), numbered in the order in which
\* they begin, and the daemon processes they spawn: the daemon of invocation c has pid c.
Clis == 1..NumCli
Pids == Clis

NoProc == [st |-> "none", sig |-> FALSE, stop |-> FALSE]
NoCli == [cmd |-> "-", pc |-> "idle", pid |-> None, seen |-> "-", spawned |-> FALSE,
          timed_out |-> FALSE]

\* a daemon process that has ended by itself, after a SIGTERM it handled
Exited == [st |-> "exited", sig |-> FALSE, stop |-> FALSE]

HostInit ==
    /\ pid_file = None
    /\ socket_file = None
    /\ proc = [p \in Pids |-> NoProc]
    /\ cli = [c \in Clis |-> NoCli]

\* the process exists: os.kill(pid, 0) does not raise ProcessLookupError
Alive(p) == proc[p].st \notin {"none", "exited"}

\* variant: any recorded pid counts as running, the process is not probed
_is_running_NoProbe(pid) == pid # None

_read_pid_file == pid_file

_is_running(pid) == IF pid = None THEN FALSE ELSE Alive(pid)

is_process_running == _is_running(_read_pid_file)

\* what PID_FILE records: nothing, the pid of a live process, or a pid no longer alive
PidFileState ==
    IF pid_file = None THEN "absent"
    ELSE IF Alive(pid_file) THEN "live" ELSE "stale"

\* cli.py main: one of --start-service, --stop-service, --restart-service
CliInvoke(c, cmd) ==
    /\ cli[c].pc = "idle"
    /\ IF c = 1 THEN TRUE ELSE cli[c - 1].pc # "idle"
    /\ cli' = [cli EXCEPT ![c].cmd = cmd,
                          ![c].pc = IF cmd = "start" THEN "start_check" ELSE "stop_read"]
    /\ UNCHANGED <<pid_file, socket_file, proc>>

\* where main goes on after daemon.stop(): restart continues as a start
AfterStop(r) ==
    IF r.cmd = "restart"
    THEN [r EXCEPT !.cmd = "start", !.pc = "start_check", !.pid = None,
                   !.timed_out = FALSE]
    ELSE [r EXCEPT !.pc = "stopped", !.pid = None, !.timed_out = FALSE]

\* stop(): pid = cls.current_pid(); None: return
StopRead(c) ==
    /\ cli[c].pc = "stop_read"
    /\ cli' = [cli EXCEPT ![c] = IF _read_pid_file = None THEN AfterStop(cli[c])
                                 ELSE [cli[c] EXCEPT !.pid = _read_pid_file,
                                                     !.pc = "stop_kill"]]
    /\ UNCHANGED <<pid_file, socket_file, proc>>

\* stop(): os.kill(pid, signal.SIGTERM); ProcessLookupError leads to the finally clause
\* (a daemon already past its accept loop only sets _stop_event again)
StopKill(c) ==
    /\ cli[c].pc = "stop_kill"
    /\ IF Alive(cli[c].pid)
       THEN /\ proc' = [proc EXCEPT ![cli[c].pid].sig =
                                         proc[cli[c].pid].st \notin {"cleanup", "lingering"}]
            /\ cli' = [cli EXCEPT ![c].pc = "stop_wait"]
       ELSE /\ cli' = [cli EXCEPT ![c].pc = "stop_finally", ![c].pid = None]
            /\ UNCHANGED proc
    /\ UNCHANGED <<pid_file, socket_file>>

\* stop(): the polling loop sees the process gone: break
StopWaitExited(c) ==
    /\ cli[c].pc = "stop_wait"
    /\ ~_is_running(cli[c].pid)
    /\ cli' = [cli EXCEPT ![c].pc = "stop_finally", ![c].pid = None]
    /\ UNCHANGED <<pid_file, socket_file, proc>>

\* stop(): the timeout passes with the process still there:
\* print(f"Daemon did not stop within {timeout} seconds."); return, through finally
StopWaitTimeout(c) ==
    /\ cli[c].pc = "stop_wait"
    /\ _is_running(cli[c].pid)
    /\ cli' = [cli EXCEPT ![c].pc = "stop_finally", ![c].pid = None,
                          ![c].timed_out = TRUE]
    /\ UNCHANGED <<pid_file, socket_file, proc>>

\* stop(): finally: if os.path.exists(PID_FILE): os.remove(PID_FILE);
\* print("Daemon stopped cleanly.")
StopFinally(c) ==
    /\ cli[c].pc = "stop_finally"
    /\ pid_file' = None
    /\ cli' = [cli EXCEPT ![c] = AfterStop(cli[c])]
    /\ UNCHANGED <<socket_file, proc>>

\* main: if daemon.is_process_running(): raise typer.Exit(code=1)
StartCheck(c) ==
    /\ cli[c].pc = "start_check"
    /\ cli' = [cli EXCEPT ![c].seen = PidFileState,
                          ![c].pc = IF is_process_running THEN "exit1" ELSE "start_spawn"]
    /\ UNCHANGED <<pid_file, socket_file, proc>>

\* main: pid = daemon.spawn(); the detached child, with a pid of its own, starts with
\* on_spawn
StartSpawn(c) ==
    /\ cli[c].pc = "start_spawn"
    /\ proc' = [proc EXCEPT ![c].st = "on_spawn"]
    /\ cli' = [cli EXCEPT ![c].pc = "started", ![c].spawned = TRUE]
    /\ UNCHANGED <<pid_file, socket_file>>

\* run(): the signal handlers are registered and the pid file is written
DaemonWritePid(p) ==
    /\ proc[p].st = "on_spawn"
    /\ ~proc[p].sig
    /\ pid_file' = p
    /\ proc' = [proc EXCEPT ![p].st = "bind"]
    /\ UNCHANGED <<socket_file, cli>>

\* run(): an existing socket file is removed, the socket is bound, and the accept loop
\* is entered unless _stop_event is already set
DaemonBind(p) ==
    /\ proc[p].st = "bind"
    /\ socket_file' = p
    /\ proc' = [proc EXCEPT ![p].st = IF proc[p].stop THEN "cleanup" ELSE "accept"]
    /\ UNCHANGED <<pid_file, cli>>

\* run(): SIGTERM arrives after self.socket has been created and before listen() has
\* returned: _cleanup closes the socket, bind() or listen() raises OSError outside the
\* try statement, and run() ends without its finally clause; bound tells whether the
\* socket file had been created
DaemonBindInterrupted(p, bound) ==
    /\ proc[p].st = "bind"
    /\ proc[p].sig
    /\ socket_file' = IF bound THEN p ELSE None
    /\ proc' = [proc EXCEPT ![p] = Exited]
    /\ UNCHANGED <<pid_file, cli>>

\* SIGTERM arrives: before run() has registered _cleanup it ends the process; afterwards
\* _cleanup sets _stop_event and closes the listening socket, which ends the accept loop
DaemonSignal(p) ==
    /\ proc[p].sig
    /\ proc' = [proc EXCEPT ![p] =
                  IF proc[p].st = "on_spawn" THEN NoProc
                  ELSE [st |-> IF proc[p].st = "accept" THEN "cleanup" ELSE proc[p].st,
                        sig |-> FALSE, stop |-> TRUE]]
    /\ UNCHANGED <<pid_file, socket_file, cli>>

\* run(): finally: each handler thread is joined for at most a second, on_stop is
\* called, then PID_FILE and SOCKET_FILE are removed. When on_stop raises (anything
\* but NotImplementedError) the exception leaves the finally clause before the files
\* are removed. The main thread is over; the process ends unless a handler thread (not
\* a daemon thread) is still running, idle inside recv_pickle or inside its command
DaemonFinish(p, raised, idle) ==
    /\ proc[p].st = "cleanup"
    /\ pid_file' = IF raised THEN pid_file ELSE None
    /\ socket_file' = IF raised THEN socket_file ELSE None
    /\ proc' = [proc EXCEPT ![p] = IF idle THEN [@ EXCEPT !.st = "lingering"] ELSE Exited]
    /\ UNCHANGED cli

\* handle_client of the last handler thread returns (its client has closed the
\* connection): with the main thread over, the process ends
HandleClientEnds(p) ==
    /\ proc[p].st = "lingering"
    /\ proc' = [proc EXCEPT ![p] = Exited]
    /\ UNCHANGED <<pid_file, socket_file, cli>>

\* the process is killed (SIGKILL, power loss): nothing is cleaned up
DaemonCrash(p) ==
    /\ Alive(p)
    /\ proc' = [proc EXCEPT ![p] = NoProc]
    /\ UNCHANGED <<pid_file, socket_file, cli>>

\* ------------------------------------------------------------------ lifecycle properties
\* C8: at no instant are two daemon processes both in their accept loop
C8_SingleInstance ==
    Cardinality({p \in Pids : proc[p].st = "accept"}) <= 1

\* C9: a start that finds the pid file recording a live process spawns nothing and exits
\* with code 1; a start that finds no pid file, or a pid no longer alive, spawns a daemon
C9_StartRespectsPidFile ==
    \A c \in Clis :
        /\ cli[c].pc = "exit1" => (cli[c].seen = "live" /\ ~cli[c].spawned)
        /\ cli[c].pc = "started" => (cli[c].seen \in {"absent", "stale"} /\ cli[c].spawned)
        /\ cli[c].seen = "live" => cli[c].pc = "exit1"
        /\ cli[c].seen \in {"absent", "stale"} => cli[c].pc \in {"start_spawn", "started"}

\* one start has been refused because of a live daemon, while another start has found
\* the pid of a process that is gone and has spawned a daemon
C9_Witness ==
    \E c, d \in Clis :
        /\ cli[c].pc = "exit1" /\ cli[c].seen = "live"
        /\ cli[d].pc = "started" /\ cli[d].seen = "stale" /\ cli[d].spawned

\* C13: a daemon whose stop flag has been set by a handled signal accepts no further
\* connection, and when it ends it has removed the pid file and the socket file:
\* neither file exists once it has exited
C13_SignalledDaemonCleansUp ==
    [][\A p \in Pids :
          /\ proc[p].stop => proc'[p].st # "accept"
          /\ (proc[p].st # "exited" /\ proc'[p].st = "exited") =>
                 (pid_file' = None /\ socket_file' = None)]_vars

\* C14: stop() prints "Daemon stopped cleanly." only if the process was not found
\* alive at the deadline: a stop() that has reported the timeout reports no stop
C14_StopReportsTruthfully ==
    [][\A c \in Clis :
          (cli[c].pc = "stop_finally" /\ cli'[c].pc # "stop_finally") =>
              ~cli[c].timed_out]_vars

\* C36: from the moment a daemon has written its pid file until it starts its own
\* shutdown (no signal has reached it), the pid file records its pid, and once it
\* has bound the socket the socket file is the one it bound
C36_FilesBelongToTheDaemon ==
    \A p \in Pids :
        (~proc[p].sig /\ ~proc[p].stop) =>
            /\ proc[p].st \in {"bind", "accept"} => pid_file = p
            /\ proc[p].st = "accept" => socket_file = p

\* C37: a daemon that has handled a termination signal eventually exits
C37_SignalledDaemonExits ==
    \A p \in Pids : (proc[p].stop) ~> (~Alive(p))

\* C40: whatever on_stop does, an exception included, a daemon that leaves the
\* finally clause of run() has removed the pid file and the socket file
C40_FilesRemovedWhateverOnStopDoes ==
    [][\A p \in Pids :
          (proc[p].st = "cleanup" /\ proc'[p].st \in {"lingering", "exited"})
             => (pid_file' = None /\ socket_file' = None)]_vars

\* ------------------------------------------------------------------ command connections
\* One handle_client thread per accepted connection; the thread of connection c has
\* thread id c. A client sends Calls (it may send the next before the previous one is
\* answered) and closes the connection only when all its Calls are answered.
Conns == 1..NumConns

\* a thread of the daemon that serves no connection: the main thread, the scheduler
\* worker, a download thread
OtherThread == 0
Threads == Conns \cup {OtherThread}
Commands == {"registered", "unknown"}

ConnInit ==
    /\ inbox = [c \in Conns |-> <<>>]
    /\ ncalls = [c \in Conns |-> 0]
    /\ hpc = [c \in Conns |-> "off"]
    /\ call = [c \in Conns |-> 0]
    /\ result = [c \in Conns |-> "-"]
    /\ connections = [t \in Threads |-> None]
    /\ wire = [c \in Conns |-> <<>>]
    /\ log = 0
    /\ hwrites = [c \in Conns |-> <<>>]
    /\ nwrites = 0
    /\ outcomes = [c \in Conns |-> [now |-> "-", raised_before |-> FALSE]]

RECURSIVE SumTo(_, _)
SumTo(f, n) == IF n = 0 THEN 0 ELSE f[n] + SumTo(f, n - 1)

\* the history of a connection when its next Call is received
NextCall(o, now) == [now |-> now, raised_before |-> o.raised_before \/ o.now = "raised"]

\* the Calls sent so far, over all connections
TotalCalls == SumTo(ncalls, NumConns)

\* a frame on the wire: a chunk of a stream or the pickled result, of the Call served
Frame(k, kind) == [call |-> k, kind |-> kind]

\* variant: write() never finds a tagged connection
Lookup_Untagged(t) == None

\* variant: one current connection for the whole process instead of one per thread
Lookup_Global(t) ==
    IF \E x \in Threads : connections[x] # None
    THEN connections[CHOOSE x \in Threads : connections[x] # None]
    ELSE None

\* TaggedStreamProxy.write: conn = self.connections.get(tid)
Lookup(t) == connections[t]

\* TaggedStreamProxy.write by thread t: a frame on the tagged connection, else the log
Write(t, stream) ==
    IF Lookup(t) # None
    THEN /\ wire' = [wire EXCEPT ![Lookup(t)] = Append(@, Frame(call[Lookup(t)], stream))]
         /\ log' = log
    ELSE /\ log' = log + 1
         /\ wire' = wire

\* run(): accept() and the start of the handler thread; the connections are numbered in
\* the order in which they are accepted
Accept(c) ==
    /\ hpc[c] = "off"
    /\ IF c = 1 THEN TRUE ELSE hpc[c - 1] # "off"
    /\ hpc' = [hpc EXCEPT ![c] = "hello"]
    /\ UNCHANGED <<inbox, ncalls, call, result, connections, wire, log, hwrites, nwrites, outcomes>>

\* the client wrapper: send_pickle(s, message)
ClientCall(c, name) ==
    /\ hpc[c] \notin {"off", "closed"}
    /\ TotalCalls < MaxCalls
    /\ inbox' = [inbox EXCEPT ![c] = Append(@, name)]
    /\ ncalls' = [ncalls EXCEPT ![c] = @ + 1]
    /\ UNCHANGED <<hpc, call, result, connections, wire, log, hwrites, nwrites, outcomes>>

\* handle_client: print(f"Connected by {addr}")
HandlerHello(c) ==
    /\ hpc[c] = "hello"
    /\ Write(c, "stdout")
    /\ hpc' = [hpc EXCEPT ![c] = "recv"]
    /\ UNCHANGED <<inbox, ncalls, call, result, connections, hwrites, nwrites, outcomes>>

\* handle_client: message = recv_pickle(conn); an unknown command gives a RuntimeError
HandlerRecv(c) ==
    /\ hpc[c] = "recv"
    /\ inbox[c] # <<>>
    /\ inbox' = [inbox EXCEPT ![c] = Tail(@)]
    /\ call' = [call EXCEPT ![c] = @ + 1]
    /\ wire' = [wire EXCEPT ![c] = <<>>]
    /\ hwrites' = [hwrites EXCEPT ![c] = <<>>]
    /\ IF Head(inbox[c]) = "registered"
       THEN /\ hpc' = [hpc EXCEPT ![c] = "tag_out"]
            /\ result' = [result EXCEPT ![c] = "-"]
            /\ outcomes' = [outcomes EXCEPT ![c] = NextCall(@, "-")]
       ELSE /\ hpc' = [hpc EXCEPT ![c] = "send"]
            /\ result' = [result EXCEPT ![c] = "error"]
            /\ outcomes' = [outcomes EXCEPT ![c] = NextCall(@, "unknown")]
    /\ UNCHANGED <<ncalls, connections, log, nwrites>>

\* handle_client: recv_pickle raises DaemonConnectionError: the client has closed;
\* print(f"Client disconnected: {addr}"); break
HandlerRecvClosed(c) ==
    /\ hpc[c] = "recv"
    /\ inbox[c] = <<>>
    /\ call[c] > 0
    /\ Write(c, "stdout")
    /\ hpc' = [hpc EXCEPT ![c] = "closed"]
    /\ UNCHANGED <<inbox, ncalls, call, result, connections, hwrites, nwrites, outcomes>>

\* self._stdout_proxy.tag_connection(conn, ...)
HandlerTagStdout(c) ==
    /\ hpc[c] = "tag_out"
    /\ connections' = [connections EXCEPT ![c] = c]
    /\ hpc' = [hpc EXCEPT ![c] = "tag_err"]
    /\ UNCHANGED <<inbox, ncalls, call, result, wire, log, hwrites, nwrites, outcomes>>

\* self._stderr_proxy.tag_connection(conn, ...): the same class-level dictionary
HandlerTagStderr(c) ==
    /\ hpc[c] = "tag_err"
    /\ connections' = [connections EXCEPT ![c] = c]
    /\ hpc' = [hpc EXCEPT ![c] = "run"]
    /\ UNCHANGED <<inbox, ncalls, call, result, wire, log, hwrites, nwrites, outcomes>>

\* the handler writes to sys.stdout or sys.stderr
HandlerWrite(c, stream) ==
    /\ hpc[c] = "run"
    /\ nwrites < MaxWrites
    /\ nwrites' = nwrites + 1
    /\ hwrites' = [hwrites EXCEPT ![c] = Append(@, stream)]
    /\ Write(c, stream)
    /\ UNCHANGED <<inbox, ncalls, hpc, call, result, connections, outcomes>>

\* a thread that serves no connection writes to sys.stdout or sys.stderr, for instance
\* the main thread's print("Daemon listening...") or the worker's print(f"Starting job")
OtherWrite(stream) ==
    /\ nwrites < MaxWrites
    /\ nwrites' = nwrites + 1
    /\ Write(OtherThread, stream)
    /\ UNCHANGED <<inbox, ncalls, hpc, call, result, connections, hwrites, outcomes>>

\* result = self._commands[cmd_name](*args, **kwargs) returns
HandlerReturn(c) ==
    /\ hpc[c] = "run"
    /\ result' = [result EXCEPT ![c] = "result"]
    /\ hpc' = [hpc EXCEPT ![c] = "untag_out"]
    /\ outcomes' = [outcomes EXCEPT ![c].now = "returned"]
    /\ UNCHANGED <<inbox, ncalls, call, connections, wire, log, hwrites, nwrites>>

\* variant: the exception of the handler is not caught and ends the handler thread
HandlerRaise_Uncaught(c) ==
    /\ hpc[c] = "run"
    /\ hpc' = [hpc EXCEPT ![c] = "closed"]
    /\ connections' = [connections EXCEPT ![c] = None]
    /\ outcomes' = [outcomes EXCEPT ![c].now = "raised"]
    /\ UNCHANGED <<inbox, ncalls, call, result, wire, log, hwrites, nwrites>>

\* the handler raises: except Exception as e: result = e (after the finally clause)
HandlerRaise(c) ==
    /\ hpc[c] = "run"
    /\ result' = [result EXCEPT ![c] = "error"]
    /\ hpc' = [hpc EXCEPT ![c] = "untag_out"]
    /\ outcomes' = [outcomes EXCEPT ![c].now = "raised"]
    /\ UNCHANGED <<inbox, ncalls, call, connections, wire, log, hwrites, nwrites>>

\* finally: self._stdout_proxy.remove_connection()
HandlerUntagStdout(c) ==
    /\ hpc[c] = "untag_out"
    /\ connections' = [connections EXCEPT ![c] = None]
    /\ hpc' = [hpc EXCEPT ![c] = "untag_err"]
    /\ UNCHANGED <<inbox, ncalls, call, result, wire, log, hwrites, nwrites, outcomes>>

\* finally: self._stderr_proxy.remove_connection()
HandlerUntagStderr(c) ==
    /\ hpc[c] = "untag_err"
    /\ connections' = [connections EXCEPT ![c] = None]
    /\ hpc' = [hpc EXCEPT ![c] = "send"]
    /\ UNCHANGED <<inbox, ncalls, call, result, wire, log, hwrites, nwrites, outcomes>>

\* send_pickle(conn, result)
HandlerSend(c) ==
    /\ hpc[c] = "send"
    /\ wire' = [wire EXCEPT ![c] = Append(@, Frame(call[c], result[c]))]
    /\ hpc' = [hpc EXCEPT ![c] = "recv"]
    /\ UNCHANGED <<inbox, ncalls, call, result, connections, log, hwrites, nwrites, outcomes>>

\* ------------------------------------------------------------------ connection properties
\* the Call being served on c has been answered
Answered(c) == call[c] > 0 /\ hpc[c] \in {"recv", "closed"}

\* C10: on a connection the frames sent since a Call was received are one chunk frame per
\* write call of its handler, in write order, then, once the Call is answered, exactly one
\* terminating frame (result or error) as the last frame; nothing of this Call is sent
\* later, and nothing is sent before the first Call
C10_FramesOfACall ==
    \A c \in Conns :
        /\ Len(wire[c]) = Len(hwrites[c]) + (IF Answered(c) THEN 1 ELSE 0)
        /\ \A i \in 1..Len(hwrites[c]) : wire[c][i] = Frame(call[c], hwrites[c][i])
        /\ Answered(c) =>
               /\ result[c] \in {"result", "error"}
               /\ wire[c][Len(wire[c])] = Frame(call[c], result[c])

\* the second Call of a connection: its handler wrote to stderr, then to stdout, raised,
\* and the Call has been answered; the client has closed
C10_Witness ==
    \E c \in Conns :
        /\ call[c] = 2
        /\ hpc[c] = "closed"
        /\ hwrites[c] = <<"stderr", "stdout">>
        /\ wire[c] = <<Frame(2, "stderr"), Frame(2, "stdout"), Frame(2, "error")>>

\* C11: a write to sys.stdout or sys.stderr is sent to a client connection exactly when
\* it is made by the handler thread of that connection while it executes the handler of
\* a Call (one chunk frame on that connection, nothing in the log); every other write,
\* by a handler thread outside a handler or by another thread, adds one entry to the log
\* and sends nothing to any client, also while handlers of several connections run
C11_WritesReachTheirClient ==
    [][/\ \A c \in Conns :
            LET wrote == Len(hwrites'[c]) = Len(hwrites[c]) + 1
                sent == /\ Len(wire'[c]) = Len(wire[c]) + 1
                        /\ wire'[c][Len(wire'[c])].kind \in {"stdout", "stderr"}
            IN  /\ wrote <=> sent
                /\ wrote => (hpc[c] = "run" /\ log' = log)
       /\ (nwrites' # nwrites /\ hwrites' = hwrites) => log' = log + 1
       /\ log' # log => (hwrites' = hwrites /\ wire' = wire)]_vars

\* the handlers of two connections run at the same time, each has written once and its
\* chunk is on its own connection; the log holds the two "Connected by" lines
C11_Witness ==
    /\ hpc[1] = "run" /\ hpc[2] = "run"
    /\ wire[1] = <<Frame(1, "stdout")>>
    /\ wire[2] = <<Frame(1, "stderr")>>
    /\ log = 2

\* C12: a Call whose handler raised, or that names an unregistered command, is answered
\* with an error as its terminating frame and a Call whose handler returned with a
\* result; the handler thread goes on serving the connection: it ends only when every
\* Call the client sent has been answered
C12_ErrorsAreAnswered ==
    \A c \in Conns :
        /\ Answered(c) =>
               /\ outcomes[c].now \in {"returned", "raised", "unknown"}
               /\ wire[c] # <<>>
               /\ wire[c][Len(wire[c])] =
                      Frame(call[c], IF outcomes[c].now = "returned" THEN "result"
                                     ELSE "error")
        /\ hpc[c] = "closed" => call[c] = ncalls[c]

\* on one connection the handler of the first Call raised, and the second Call, served
\* by the same thread, has been answered with the result of its handler
C12_Witness ==
    \E c \in Conns :
        /\ outcomes[c] = [now |-> "returned", raised_before |-> TRUE]
        /\ call[c] = 2
        /\ hpc[c] = "recv"
        /\ wire[c][Len(wire[c])] = Frame(2, "result")

\* ------------------------------------------------------------------ transport
\* One connection, byte by byte (daemon/daemon.py). Its handle_client thread is
\* "handler"; "other" is a thread of the daemon that serves no client (the worker, a
\* download thread). connections and map_isatty are class attributes of
\* TaggedStreamProxy (lines 29-30), so the proxies of stdout and stderr share one
\* dictionary of each kind, keyed by thread; each proxy has a lock of its own (line 34).
\* An object on the wire is [kind, text]: a StdoutMessage, a StderrMessage or the
\* result, with a text of 120s.
RecvMax == 4096

\* self.connections.get(tid) (line 40) is a connection: there is only this one
get_connection_AnyThread(t) == chan.connections # {}

get_connection(t) == t \in chan.connections

\* TaggedStreamProxy.isatty, lines 51-52: self.map_isatty.get(tid, False), whichever
\* proxy p it is called on
isatty(p, t) == <<t, TRUE>> \in chan.map_isatty

\* send_pickle with the length of the text in the prefix
send_pickle_TextLength(c, t, o, via) ==
    LET data == <<CASE o.kind = "stdout" -> 1 [] o.kind = "stderr" -> 2 [] OTHER -> 3>> \o o.text
        n == Len(o.text)
        length == [i \in 1..8 |-> IF i = 8 THEN n % 256 ELSE 0]
    IN [c EXCEPT !.sock = @ \o length,
                 !.owner = @ \o [i \in 1..8 |-> c.nframes + 1],
                 !.sent = Append(@, o),
                 !.nframes = @ + 1,
                 !.snd[t] = [data |-> data, f |-> c.nframes + 1, via |-> via]]

\* send_pickle, lines 88-91, called by thread t in state c of the connection:
\* data = pickle.dumps(obj) (one byte for the class, then the text),
\* length = struct.pack(">Q", len(data)) (lengths here are below 2^32, so the four high
\* bytes are 0), sock.sendall(length); the payload is still to be sent (line 92)
send_pickle(c, t, o, via) ==
    LET data == <<CASE o.kind = "stdout" -> 1 [] o.kind = "stderr" -> 2 [] OTHER -> 3>> \o o.text
        n == Len(data)
        length == [i \in 1..8 |-> CASE i = 8 -> n % 256
                                    [] i = 7 -> (n \div 256) % 256
                                    [] i = 6 -> (n \div 65536) % 256
                                    [] i = 5 -> (n \div 16777216) % 256
                                    [] OTHER -> 0]
    IN [c EXCEPT !.sock = @ \o length,
                 !.owner = @ \o [i \in 1..8 |-> c.nframes + 1],
                 !.sent = Append(@, o),
                 !.nframes = @ + 1,
                 !.snd[t] = [data |-> data, f |-> c.nframes + 1, via |-> via]]

\* Daemon.run accepts the client and starts handle_client on its thread; the proxies
\* have their locks and no thread is tagged
Connect ==
    /\ chan.hpc = "off"
    /\ chan' = [hpc |-> "recv",
                msg |-> [isatty_stdout |-> FALSE, isatty_stderr |-> FALSE],
                connections |-> {}, map_isatty |-> {},
                lock |-> [p \in {"stdout", "stderr"} |-> "free"],
                snd |-> [t \in {"handler", "other"} |-> [data |-> <<>>, f |-> 0, via |-> "-"]],
                sock |-> <<>>, owner |-> <<>>, sent |-> <<>>, nframes |-> 0, log |-> {},
                closed |-> FALSE,
                rpc |-> "length", length_buf |-> <<>>, length |-> 0, data |-> <<>>,
                got |-> <<>>, used |-> <<>>]

\* handle_client, lines 291 and 299-303: a Message arrives; it carries the client's
\* isatty_stdout and isatty_stderr
HandleRecv(so, se) ==
    /\ chan.hpc = "recv"
    /\ ~chan.closed
    /\ chan.nframes < MaxFrames
    /\ chan' = [chan EXCEPT !.hpc = "tag_stdout",
                            !.msg = [isatty_stdout |-> so, isatty_stderr |-> se]]

\* lines 306-307 and tag_connection, lines 57-60, on the proxy of stream p
tag_connection(p) ==
    /\ chan.hpc = (IF p = "stdout" THEN "tag_stdout" ELSE "tag_stderr")
    /\ chan.lock[p] = "free"
    /\ chan' = [chan EXCEPT
           !.hpc = IF p = "stdout" THEN "tag_stderr" ELSE "run",
           !.connections = @ \cup {"handler"},
           !.map_isatty = {e \in @ : e[1] # "handler"} \cup
               {<<"handler", IF p = "stdout" THEN chan.msg.isatty_stdout
                                              ELSE chan.msg.isatty_stderr>>}]

\* TaggedStreamProxy.write, lines 37-49, by thread t on the proxy of stream p with a text
\* of n characters: under the proxy's lock, the first half of send_pickle when the
\* thread has a connection, else a write to the log file (log: the threads that wrote)
write(t, p, n) ==
    /\ chan.hpc # "off"
    /\ ~chan.closed
    /\ t = "handler" => chan.hpc = "run"
    /\ chan.snd[t].f = 0
    /\ chan.lock[p] = "free"
    /\ IF get_connection(t)
       THEN /\ t = "handler" => chan.nframes + 1 < MaxFrames
            /\ chan' = send_pickle([chan EXCEPT !.lock[p] = t], t,
                                   [kind |-> p, text |-> [i \in 1..n |-> 120]], p)
       ELSE chan' = [chan EXCEPT !.log = @ \cup {t}]

\* send_pickle, line 92: sock.sendall(data); then the with block of write ends (line
\* 49), or handle_client goes round its loop (line 289)
sendall_data(t) ==
    /\ chan.hpc # "off"
    /\ ~chan.closed
    /\ chan.snd[t].f # 0
    /\ chan' = [chan EXCEPT
           !.sock = @ \o chan.snd[t].data,
           !.owner = @ \o [i \in 1..Len(chan.snd[t].data) |-> chan.snd[t].f],
           !.snd[t] = [data |-> <<>>, f |-> 0, via |-> "-"],
           !.lock = IF chan.snd[t].via = "result" THEN @
                    ELSE [@ EXCEPT ![chan.snd[t].via] = "free"],
           !.hpc = IF chan.snd[t].via = "result" THEN "recv" ELSE @]

\* lines 309-313 and remove_connection, lines 62-65: the command returns or raises and
\* the finally clause untags the thread, on the proxy of stdout and then of stderr;
\* the Message is not read again
remove_connection(p) ==
    /\ chan.hpc = (IF p = "stdout" THEN "run" ELSE "untag_stderr")
    /\ chan.snd["handler"].f = 0
    /\ chan.lock[p] = "free"
    /\ chan' = [chan EXCEPT
           !.hpc = IF p = "stdout" THEN "untag_stderr" ELSE "send",
           !.msg = IF p = "stdout" THEN @
                   ELSE [isatty_stdout |-> FALSE, isatty_stderr |-> FALSE],
           !.connections = @ \ {"handler"},
           !.map_isatty = {e \in @ : e[1] # "handler"}]

\* line 320: send_pickle(conn, result), outside the proxies and their locks
SendResult(n) ==
    /\ chan.hpc = "send"
    /\ ~chan.closed
    /\ chan' = send_pickle([chan EXCEPT !.hpc = "sending"], "handler",
                           [kind |-> "result", text |-> [i \in 1..n |-> 120]], "result")

\* the daemon's end of the connection is closed: the process is killed, or
\* handle_client leaves `with conn`
Disconnect ==
    /\ chan.hpc # "off"
    /\ ~chan.closed
    /\ chan' = [chan EXCEPT !.closed = TRUE]

\* recv_pickle, lines 100-119, in the client: one sock.recv that returns k bytes, at
\* most as many as it was asked for; when the eight bytes of the prefix are there,
\* length = struct.unpack(">Q", length_buf)[0]; when the payload is complete,
\* pickle.loads(data) is returned
recv(k) ==
    LET asked == IF chan.rpc = "length" THEN 8 - Len(chan.length_buf)
                 ELSE IF RecvMax < chan.length - Len(chan.data) THEN RecvMax
                 ELSE chan.length - Len(chan.data)
        chunk == SubSeq(chan.sock, 1, k)
        rest == SubSeq(chan.sock, k + 1, Len(chan.sock))
        buf == chan.length_buf \o chunk
        unpack[i \in 0..8] == IF i = 0 THEN 0 ELSE unpack[i - 1] * 256 + buf[i]
        data == chan.data \o chunk
        loads == [kind |-> CASE data[1] = 1 -> "stdout" [] data[1] = 2 -> "stderr"
                             [] OTHER -> "result",
                  text |-> Tail(data)]
    IN /\ chan.hpc # "off"
       /\ chan.rpc \in {"length", "data"}
       /\ k <= asked
       /\ k <= Len(chan.sock)
       /\ chan' =
            IF chan.rpc = "length"
            THEN IF Len(buf) < 8
                 THEN [chan EXCEPT !.sock = rest, !.length_buf = buf]
                 ELSE [chan EXCEPT !.sock = rest, !.length_buf = buf,
                                   !.length = unpack[8], !.rpc = "data"]
            ELSE IF Len(data) < chan.length
                 THEN [chan EXCEPT !.sock = rest, !.data = data]
                 ELSE [chan EXCEPT !.sock = rest, !.data = <<>>, !.length_buf = <<>>,
                                   !.length = 0, !.rpc = "length",
                                   !.got = Append(@, loads),
                                   !.used = Append(@, 8 + chan.length)]

\* recv_pickle, lines 104-105 and 113-114: sock.recv returns b"" because the stream
\* has ended, and DaemonConnectionError is raised
recv_closed ==
    /\ chan.hpc # "off"
    /\ chan.rpc \in {"length", "data"}
    /\ chan.sock = <<>>
    /\ chan.closed
    /\ chan' = [chan EXCEPT !.rpc = "raised"]

\* ------------------------------------------------------------------ transport properties
\* C22: whatever the chunks sock.recv returns, recv_pickle returns the objects that
\* were sent, in the order in which they were sent; the bytes it has taken from the
\* stream are those of the frames it returned, eight plus the length for each, and the
\* part of the next frame it holds; it raises only when the stream has ended, and then
\* it returns no value
C22_FramesSurviveFragmentation ==
    chan.hpc # "off" =>
    LET n == Len(chan.got)
        taken == Len(chan.owner) - Len(chan.sock)
    IN /\ n <= Len(chan.sent)
       /\ \A i \in 1..n :
             /\ chan.got[i] = chan.sent[i]
             /\ chan.used[i] = Cardinality({j \in 1..Len(chan.owner) : chan.owner[j] = i})
       /\ chan.rpc # "raised" =>
             taken = Cardinality({j \in 1..Len(chan.owner) : chan.owner[j] <= n})
                     + Len(chan.length_buf) + Len(chan.data)
       /\ chan.rpc = "raised" => (chan.closed /\ chan.sock = <<>>)

\* the client has one object, has read five bytes of the next prefix in more than one
\* chunk, and the rest of that frame is still on its way
C22_Witness ==
    /\ chan.hpc # "off"
    /\ Len(chan.got) = 1
    /\ Len(chan.length_buf) = 5
    /\ Len(chan.sock) = 3
    /\ chan.snd["handler"].f = 2

\* C23: the bytes of one frame, its length prefix and its payload, are next to each
\* other on the wire: no byte of another frame lies between two bytes of a frame
C23_FramesDoNotInterleave ==
    chan.hpc # "off" =>
    \A i, k \in 1..Len(chan.owner) :
        (i < k /\ chan.owner[i] = chan.owner[k]) => chan.owner[k - 1] = chan.owner[i]

\* the handler has written to stderr and is sending the result, after another thread
\* of the daemon has written to the log, and the client has read part of the first frame
C23_Witness ==
    /\ chan.hpc # "off"
    /\ chan.nframes = 2
    /\ chan.sent[1].kind = "stderr"
    /\ chan.snd["handler"].via = "result"
    /\ chan.log = {"other"}
    /\ chan.rpc = "data"

\* C24: while the command of a Call runs, isatty() of the daemon's stdout is the
\* isatty_stdout of that Call and isatty() of its stderr is the isatty_stderr of that
\* Call; in a thread that serves no Call, and between two Calls, both are false
C24_IsattyFollowsTheCall ==
    chan.hpc # "off" =>
    /\ chan.hpc = "run" =>
          /\ isatty("stdout", "handler") = chan.msg.isatty_stdout
          /\ isatty("stderr", "handler") = chan.msg.isatty_stderr
    /\ chan.hpc = "recv" =>
          (~isatty("stdout", "handler") /\ ~isatty("stderr", "handler"))
    /\ ~isatty("stdout", "other") /\ ~isatty("stderr", "other")

\* ------------------------------------------------------------------ listing queries
\* The tables media.media and media.tags as the two listings read them. A row of
\* media.media is [status, timestamp_updated, timestamp_installed]; the title of row i
\* is i, so titles ascend with the ids. media.tags holds pairs <<resource_id, tag>>.
\* resp is the last response, the rows by id, kind says which listing made it and args
\* are the tags it was asked for.

\* a statement writes row id of media.media (lines 119-130, 198-208), and the rows of
\* media.tags for it become tg; the response of an earlier listing is forgotten
LedgerWrite(id, st, tu, ti, tg) ==
    qdb' = [qdb EXCEPT
        !.media = (id :> [status |-> st, timestamp_updated |-> tu,
                          timestamp_installed |-> ti]) @@ @,
        !.tags = {e \in @ : e[1] # id} \cup {<<id, t>> : t \in tg},
        !.resp = <<>>, !.kind = "-", !.args = {}]

\* list_media, lines 164-188, with title_like = None: SELECT m.title FROM media.media m
\* [JOIN media.tags t ON m.id = t.resource_id] WHERE m.status = 'complete'
\* [AND t.tag IN (tags)]; there is no ORDER BY, so the rows come in any order
list_media(tags) ==
    LET complete == {i \in DOMAIN qdb.media : qdb.media[i].status = "complete"}
        joined == IF tags = {} THEN {<<i, "-">> : i \in complete}
                  ELSE {e \in qdb.tags : e[1] \in complete /\ e[2] \in tags}
        n == Cardinality(joined)
    IN \E f \in [1..n -> joined] :
          /\ \A a, b \in 1..n : a # b => f[a] # f[b]
          /\ qdb' = [qdb EXCEPT !.resp = [i \in 1..n |-> f[i][1]],
                                !.kind = "handler", !.args = tags]

\* server.py, lines 28-33: GET /media/list, SELECT id, title FROM media.media WHERE
\* status='complete' ORDER BY timestamp_updated DESC, timestamp_installed DESC, title ASC
get_media_list ==
    LET complete == {i \in DOMAIN qdb.media : qdb.media[i].status = "complete"}
        n == Cardinality(complete)
        r(i) == qdb.media[i]
        before(a, b) ==
            \/ r(a).timestamp_updated > r(b).timestamp_updated
            \/ /\ r(a).timestamp_updated = r(b).timestamp_updated
               /\ r(a).timestamp_installed > r(b).timestamp_installed
            \/ /\ r(a).timestamp_updated = r(b).timestamp_updated
               /\ r(a).timestamp_installed = r(b).timestamp_installed
               /\ a < b
    IN \E f \in [1..n -> complete] :
          /\ \A a, b \in 1..n : a < b => before(f[a], f[b])
          /\ qdb' = [qdb EXCEPT !.resp = f, !.kind = "http", !.args = {}]

\* C25: a listing of the complete items, by the handler or by GET /media/list, holds
\* only rows whose status is complete, ordered by timestamp_updated descending, then
\* timestamp_installed descending, then title ascending
C25_ListingIsOrdered ==
    qdb.kind # "-" =>
        /\ \A a \in 1..Len(qdb.resp) : qdb.media[qdb.resp[a]].status = "complete"
        /\ \A a, b \in 1..Len(qdb.resp) :
              a < b =>
                LET x == qdb.media[qdb.resp[a]]
                    y == qdb.media[qdb.resp[b]]
                IN \/ x.timestamp_updated > y.timestamp_updated
                   \/ /\ x.timestamp_updated = y.timestamp_updated
                      /\ x.timestamp_installed > y.timestamp_installed
                   \/ /\ x.timestamp_updated = y.timestamp_updated
                      /\ x.timestamp_installed = y.timestamp_installed
                      /\ qdb.resp[a] <= qdb.resp[b]

\* C26: the handler's listing for a set of tags holds an item exactly when the item is
\* complete and carries every one of the tags, and holds it once
C26_TagFilterIsIntersection ==
    (qdb.kind = "handler" /\ qdb.args # {}) =>
        \A i \in DOMAIN qdb.media :
            Cardinality({a \in 1..Len(qdb.resp) : qdb.resp[a] = i})
              = IF /\ qdb.media[i].status = "complete"
                   /\ \A t \in qdb.args : <<i, t>> \in qdb.tags
                THEN 1 ELSE 0

\* ------------------------------------------------------------------ migration tool
\* migration/migrate.py on one database file. mig.up and mig.down are the versions
\* that have an up and a down file in the versions directory; a version is known to
\* get_migration_files (lines 15-26) when it has either. mig.table is the content of
\* _schema_migrations and mig.schema the versions whose scripts have left their effect
\* in the database; mig.tx is what BEGIN set aside. A database no migration was applied
\* to has no table that could hold user data.

\* the package is built: the versions directory gets its files
WriteVersions(up, down) ==
    /\ mig.pc = "none"
    /\ mig' = [pc |-> "idle", up |-> up, down |-> down, table |-> {}, schema |-> {},
               tx |-> [open |-> FALSE, schema |-> {}, table |-> {}],
               from |-> 0, target |-> 0, direction |-> "up", to_apply |-> <<>>,
               has_user_data |-> FALSE, backup |-> "none", applied |-> <<>>,
               prev |-> [done |-> FALSE, from |-> 0, target |-> 0, applied |-> <<>>],
               kept |-> {}, exit |-> "-", failed |-> FALSE]

\* migrate_to_version with the downward list taken from the target version on
migrate_to_version_Inclusive(target_version, has_user_data, copied) ==
    LET current_version == IF mig.table = {} THEN 0
                           ELSE CHOOSE v \in mig.table : \A w \in mig.table : w <= v
        up == target_version > current_version
        sel == IF up THEN {v \in mig.up \cup mig.down : current_version < v /\ v <= target_version}
               ELSE {v \in mig.up \cup mig.down : target_version <= v /\ v <= current_version}
        n == Cardinality(sel)
        asc == [i \in 1..n |-> CHOOSE v \in sel : Cardinality({w \in sel : w < v}) = i - 1]
    IN /\ mig.pc \in {"idle", "exited"}
       /\ has_user_data => mig.table # {}
       /\ mig' = [mig EXCEPT
              !.pc = "apply", !.exit = "-",
              !.from = current_version, !.target = target_version,
              !.direction = IF up THEN "up" ELSE "down",
              !.to_apply = IF up THEN asc ELSE [i \in 1..n |-> asc[n + 1 - i]],
              !.has_user_data = has_user_data,
              !.backup = IF current_version # 0 /\ has_user_data
                         THEN (IF copied THEN "made" ELSE "failed") ELSE "none",
              !.applied = <<>>, !.failed = FALSE,
              !.prev = [done |-> mig.exit = "0", from |-> mig.from,
                        target |-> mig.target, applied |-> mig.applied],
              !.kept = mig.table]

\* migrate_to_version, lines 104-126, with migrate_up_to (line 84) and migrate_down_to
\* (line 92), on a database file: current_version = max(version), the backup when
\* current_version != 0 and the database has user data (copied: shutil.copy2 worked;
\* when it raises, the exception is printed and the function goes on), and the list of
\* versions to apply, ascending on the way up and descending on the way down
migrate_to_version(target_version, has_user_data, copied) ==
    LET current_version == IF mig.table = {} THEN 0
                           ELSE CHOOSE v \in mig.table : \A w \in mig.table : w <= v
        up == target_version > current_version
        sel == IF up THEN {v \in mig.up \cup mig.down : current_version < v /\ v <= target_version}
               ELSE {v \in mig.up \cup mig.down : target_version < v /\ v <= current_version}
        n == Cardinality(sel)
        asc == [i \in 1..n |-> CHOOSE v \in sel : Cardinality({w \in sel : w < v}) = i - 1]
    IN /\ mig.pc \in {"idle", "exited"}
       /\ has_user_data => mig.table # {}
       /\ mig' = [mig EXCEPT
              !.pc = "apply", !.exit = "-",
              !.from = current_version, !.target = target_version,
              !.direction = IF up THEN "up" ELSE "down",
              !.to_apply = IF up THEN asc ELSE [i \in 1..n |-> asc[n + 1 - i]],
              !.has_user_data = has_user_data,
              !.backup = IF current_version # 0 /\ has_user_data
                         THEN (IF copied THEN "made" ELSE "failed") ELSE "none",
              !.applied = <<>>, !.failed = FALSE,
              !.prev = [done |-> mig.exit = "0", from |-> mig.from,
                        target |-> mig.target, applied |-> mig.applied],
              !.kept = mig.table]

\* lines 86-88 and 94-96, then apply_migration, lines 62-66: without the file of the
\* direction the process exits with 1; else BEGIN, and the script is executed
apply_migration_begin ==
    /\ mig.pc = "apply"
    /\ mig.to_apply # <<>>
    /\ LET v == Head(mig.to_apply)
       IN IF v \notin (IF mig.direction = "up" THEN mig.up ELSE mig.down)
          THEN mig' = [mig EXCEPT !.pc = "exited", !.exit = "1", !.failed = TRUE]
          ELSE mig' = [mig EXCEPT
                   !.pc = "exec",
                   !.tx = [open |-> TRUE, schema |-> mig.schema, table |-> mig.table],
                   !.schema = IF mig.direction = "up" THEN @ \cup {v} ELSE @ \ {v}]

\* apply_migration that commits what the failed script has done
apply_migration_end_Commit(ok) ==
    /\ mig.pc = "exec"
    /\ LET v == Head(mig.to_apply)
       IN IF ok
          THEN mig' = [mig EXCEPT
                   !.pc = "apply",
                   !.table = IF mig.direction = "up" THEN @ \cup {v} ELSE @ \ {v},
                   !.tx = [open |-> FALSE, schema |-> {}, table |-> {}],
                   !.to_apply = Tail(@),
                   !.applied = Append(@, v),
                   !.kept = IF mig.direction = "up" THEN mig.table \cup {v}
                            ELSE mig.table \ {v}]
          ELSE mig' = [mig EXCEPT
                   !.pc = "exited", !.exit = "1", !.failed = TRUE,
                   !.tx = [open |-> FALSE, schema |-> {}, table |-> {}]]

\* apply_migration, lines 66-81: the script has run (ok) and the version is inserted
\* into or deleted from _schema_migrations, then COMMIT; or the script has raised:
\* ROLLBACK and sys.exit(1)
apply_migration_end(ok) ==
    /\ mig.pc = "exec"
    /\ LET v == Head(mig.to_apply)
       IN IF ok
          THEN mig' = [mig EXCEPT
                   !.pc = "apply",
                   !.table = IF mig.direction = "up" THEN @ \cup {v} ELSE @ \ {v},
                   !.tx = [open |-> FALSE, schema |-> {}, table |-> {}],
                   !.to_apply = Tail(@),
                   !.applied = Append(@, v),
                   !.kept = IF mig.direction = "up" THEN mig.table \cup {v}
                            ELSE mig.table \ {v}]
          ELSE mig' = [mig EXCEPT
                   !.pc = "exited", !.exit = "1", !.failed = TRUE,
                   !.schema = mig.tx.schema, !.table = mig.tx.table,
                   !.tx = [open |-> FALSE, schema |-> {}, table |-> {}]]

\* lines 127-131: nothing is left to apply; the connection is closed and the process
\* ends with exit status 0
migrate_done ==
    /\ mig.pc = "apply"
    /\ mig.to_apply = <<>>
    /\ mig' = [mig EXCEPT !.pc = "exited", !.exit = "0"]

\* the versions v the migration tool knows with lo < v <= hi
Between(lo, hi) == {v \in mig.up \cup mig.down : lo < v /\ v <= hi}

\* C27: when a run that migrated from a up to b and the next run, which migrated from
\* b back down to a, have both ended well, _schema_migrations holds exactly the known
\* versions up to a, the first run has applied the up migrations of the versions in
\* (a, b] once each in ascending order and the second their down migrations once each
\* in descending order
C27_UpThenDownRestores ==
    LET a == mig.target
        b == mig.from
        n == Cardinality(Between(a, b))
    IN (/\ mig.pc = "exited"
        /\ mig.exit = "0"
        /\ mig.prev.done /\ mig.prev.from = a /\ mig.prev.target = b /\ a <= b)
       => /\ mig.table = Between(0, a)
          /\ Len(mig.prev.applied) = n /\ Len(mig.applied) = n
          /\ \A i \in 1..n : /\ mig.prev.applied[i] \in Between(a, b)
                              /\ mig.applied[i] = mig.prev.applied[n + 1 - i]
          /\ \A i, j \in 1..n : i < j => mig.prev.applied[i] < mig.prev.applied[j]

\* versions 2 and 3 were applied on top of version 1 and taken back again
C27_Witness ==
    /\ mig.pc = "exited" /\ mig.exit = "0"
    /\ mig.prev = [done |-> TRUE, from |-> 1, target |-> 3, applied |-> <<2, 3>>]
    /\ mig.from = 3 /\ mig.target = 1
    /\ mig.applied = <<3, 2>>

\* C28: when a script fails or the file of the direction is missing, the process
\* exits with a status that is not 0, no transaction is left open, the database holds
\* the effect of exactly the recorded versions, and _schema_migrations is what it was
\* after the last migration that completed
C28_FailureKeepsLastVersion ==
    mig.pc # "none" =>
    /\ mig.failed => (mig.pc = "exited" /\ mig.exit = "1")
    /\ mig.exit = "0" => mig.to_apply = <<>>
    /\ mig.exit = "1" => (/\ ~mig.tx.open
                          /\ mig.schema = mig.table
                          /\ mig.table = mig.kept
                          /\ Head(mig.to_apply) \in
                                (IF mig.direction = "up" THEN Between(0, NumVersions) \ mig.table
                                 ELSE mig.table))

\* on the way down from version 3 the migration of version 3 was taken back and the
\* one of version 2 failed, with both of its files there: versions 1 and 2 stay recorded
C28_Witness ==
    /\ mig.pc = "exited"
    /\ mig.exit = "1"
    /\ mig.direction = "down"
    /\ mig.applied = <<3>>
    /\ mig.table = {1, 2}
    /\ 2 \in mig.down

\* C29: a migration script runs on a database with user data only after the file
\* copy of that database was made in the same call; when the copy fails, no script runs
C29_BackupBeforeMigration ==
    (mig.pc \in {"apply", "exec", "exited"} /\ (mig.pc = "exec" \/ mig.applied # <<>>)) =>
        (mig.has_user_data => mig.backup = "made")

\* ------------------------------------------------------------------ artifact paths
\* hashlib.md5(s.encode('utf-8')).digest() for the strings the model hashes: the 16
\* bytes MD5 yields for each of them
md5(s) ==
    CASE s = "example-v1" -> <<118, 20, 206, 234, 118, 172, 134, 101, 226, 188, 237, 172, 38, 153, 56, 75>>
      [] s = "example__v1" -> <<119, 53, 205, 85, 129, 129, 247, 113, 58, 86, 225, 148, 193, 245, 189, 230>>
      [] s = "example-v2" -> <<79, 196, 115, 28, 197, 15, 0, 249, 176, 224, 30, 94, 169, 159, 207, 193>>
      [] s = "example__v2" -> <<186, 211, 119, 84, 12, 51, 81, 18, 215, 10, 120, 92, 234, 151, 50, 150>>
      [] s = "example-v3" -> <<183, 247, 203, 74, 247, 73, 159, 182, 75, 254, 98, 188, 161, 248, 238, 243>>
      [] s = "example__v3" -> <<56, 159, 232, 125, 104, 215, 81, 51, 140, 236, 69, 203, 183, 13, 95, 228>>
      [] s = "youtube-v1" -> <<126, 251, 31, 32, 92, 126, 28, 93, 237, 123, 249, 37, 69, 102, 61, 154>>
      [] s = "youtube__v1" -> <<65, 175, 147, 36, 232, 255, 154, 37, 68, 172, 112, 186, 214, 185, 190, 211>>
      [] s = "youtube-v2" -> <<151, 83, 227, 126, 54, 45, 243, 182, 223, 56, 14, 71, 181, 124, 212, 74>>
      [] s = "youtube__v2" -> <<80, 146, 4, 154, 103, 238, 28, 194, 26, 193, 209, 115, 231, 123, 36, 128>>
      [] s = "youtube-v3" -> <<192, 71, 149, 25, 17, 18, 8, 84, 90, 110, 234, 249, 254, 4, 177, 130>>
      [] s = "youtube__v3" -> <<21, 192, 32, 40, 147, 245, 2, 239, 10, 3, 148, 14, 253, 12, 26, 224>>

\* the text of the bytes d in an alphabet of 2^k characters, k bits a character, the
\* last character filled up with zero bits: digest.hex() with k = 4, and
\* base64.b32encode(digest).decode('utf-8').rstrip('=').upper() with k = 5
encode(d, k, alphabet) ==
    LET nbits == 8 * Len(d)
        bit(i) == IF i < nbits THEN (d[(i \div 8) + 1] \div (2 ^ (7 - (i % 8)))) % 2 ELSE 0
        digit(c) == LET v[j \in 0..k] ==
                            IF j = 0 THEN 0 ELSE 2 * v[j - 1] + bit(c * k + j - 1)
                    IN v[k]
    IN [c \in 1..((nbits + k - 1) \div k) |-> alphabet[digit(c - 1) + 1]]

\* CustomDownloader.process_info, lines 25-39: the fields added to the info dict
process_info(info_dict) ==
    LET unique_id_str == info_dict.extractor \o "-" \o info_dict.id
        md5_hash_digest == md5(unique_id_str)
        md5_b32 == encode(md5_hash_digest, 5,
                          <<"A", "B", "C", "D", "E", "F", "G", "H", "I", "J", "K", "L", "M",
                            "N", "O", "P", "Q", "R", "S", "T", "U", "V", "W", "X", "Y", "Z",
                            "2", "3", "4", "5", "6", "7">>)
        md5_hex == encode(md5_hash_digest, 4,
                          <<"0", "1", "2", "3", "4", "5", "6", "7", "8", "9",
                            "a", "b", "c", "d", "e", "f">>)
    IN [b1_b32 |-> SubSeq(md5_b32, 1, 2), b2_b32 |-> SubSeq(md5_b32, 3, 4),
        b1_hex |-> SubSeq(md5_hex, 1, 2), b2_hex |-> SubSeq(md5_hex, 3, 4),
        hash_b32 |-> md5_b32, hash_hex |-> md5_hex]

\* YTDLPDownloader.fetch_info(url) for the page of (extractor, source_id): the id is
\* the lowercase hex MD5 of extractor "__" source_id and the path h[0:4]/h[4:8]/h
VideoInfo(extractor, source_id) ==
    LET h == encode(md5(extractor \o "__" \o source_id), 4,
                    <<"0", "1", "2", "3", "4", "5", "6", "7", "8", "9",
                      "a", "b", "c", "d", "e", "f">>)
    IN [mb_identifier |-> h, mb_path |-> <<SubSeq(h, 1, 4), SubSeq(h, 5, 8), h>>]

\* register_new_download, lines 108 and 119-134: the row of the probed item is
\* inserted with the id and the object_path of its VideoInfo; a second row with the
\* same id is rejected
RegisterPath(extractor, source_id) ==
    LET info == VideoInfo(extractor, source_id)
    IN /\ \A r \in web.rows : r.id # info.mb_identifier
       /\ web' = [web EXCEPT !.rows = @ \cup {[id |-> info.mb_identifier,
                                               object_path |-> info.mb_path,
                                               status |-> "pending"]}]

\* the worker promotes the row (line 238) and the download thread runs:
\* process_info fills the info dict and yt-dlp expands outtmpl (downloader.py 134)
\* under output_dir = datadir, making the directory the artifact is written into
DownloadInto(extractor, source_id) ==
    LET id == VideoInfo(extractor, source_id).mb_identifier
        info_dict == process_info([id |-> source_id, extractor |-> extractor])
        outdir == <<info_dict.b1_b32, info_dict.b2_b32, info_dict.hash_b32>>
    IN /\ \E r \in web.rows : r.id = id /\ r.status = "pending"
       /\ web' = [web EXCEPT
               !.rows = {IF r.id = id THEN [r EXCEPT !.status = "downloading"] ELSE r
                            : r \in @},
               !.files = @ \cup {outdir}]

\* _status_callback with StatusFinished, line 208: the row becomes complete
FinishedPath(id) ==
    /\ \E r \in web.rows : r.id = id /\ r.status = "downloading"
    /\ web' = [web EXCEPT
            !.rows = {IF r.id = id THEN [r EXCEPT !.status = "complete"] ELSE r : r \in @}]

\* C31: the directory <datadir>/<object_path> of every complete row, with
\* object_path = h[0:4]/h[4:8]/h for the row's 32-hex id h, is a directory the
\* download wrote the artifact into
C31_ArtifactAtObjectPath ==
    \A r \in web.rows :
        /\ Len(r.id) = 32
        /\ r.object_path = <<SubSeq(r.id, 1, 4), SubSeq(r.id, 5, 8), r.id>>
        /\ r.status = "complete" => r.object_path \in web.files

\* ------------------------------------------------------------------ command registry
\* variant: a second registration under the same name replaces the handler
command_Replace(name, func) ==
    web' = [web EXCEPT
        !.commands = {c \in @ : c[1] # name} \cup {<<name, func>>},
        !.called = [name |-> name, func |-> func, raised |-> FALSE]]

\* Daemon.command, lines 215-219: func.__name__ is looked up in self._commands; a
\* name that is there raises ValueError, otherwise self._commands[name] = func
command(name, func) ==
    IF \E c \in web.commands : c[1] = name
    THEN web' = [web EXCEPT !.called = [name |-> name, func |-> func, raised |-> TRUE]]
    ELSE web' = [web EXCEPT
             !.commands = {c \in @ : c[1] # name} \cup {<<name, func>>},
             !.called = [name |-> name, func |-> func, raised |-> FALSE]]

\* C32: a registration never removes or replaces an entry of the registry, and one
\* under a name that is already registered raises and leaves the registry as it was
C32_RegistryAppendOnly ==
    [][/\ web.commands \subseteq web'.commands
       /\ (web'.called # web.called /\ \E c \in web.commands : c[1] = web'.called.name)
             => (web'.called.raised /\ web'.commands = web.commands)]_vars

C32_Witness ==
    /\ web.called.raised
    /\ \E c \in web.commands : c[1] = web.called.name /\ c[2] # web.called.func
    /\ Cardinality(web.commands) = 2

\* ------------------------------------------------------------------ components
UnitInit ==
    /\ chan = [hpc |-> "off"]
    /\ qdb = [media |-> <<>>, tags |-> {}, resp |-> <<>>, kind |-> "-", args |-> {}]
    /\ mig = [pc |-> "none"]
    /\ web = [server_options |-> "None", server |-> "none", rows |-> {}, files |-> {},
              commands |-> {}, called |-> [name |-> "-", func |-> 0, raised |-> FALSE]]

\* ------------------------------------------------------------------ specification
Init == SchedInit /\ HostInit /\ ConnInit /\ SvcInit /\ UnitInit

Next ==
    \/ OnSpawnDb /\ UNCHANGED <<hostVars, connVars, svcVars, unitVars>>
    \/ OnSpawnWorker /\ UNCHANGED <<hostVars, connVars, svcVars, unitVars>>
    \/ Kill /\ UNCHANGED <<hostVars, connVars, svcVars, unitVars>>
    \/ \E u \in Urls : register_new_download(u) /\ UNCHANGED <<hostVars, connVars, svcVars, unitVars>>
    \/ WorkerWait /\ UNCHANGED <<hostVars, connVars, svcVars, unitVars>>
    \/ WorkerClear /\ UNCHANGED <<hostVars, connVars, svcVars, unitVars>>
    \/ WorkerAcquire /\ UNCHANGED <<hostVars, connVars, svcVars, unitVars>>
    \/ WorkerSelect /\ UNCHANGED <<hostVars, connVars, svcVars, unitVars>>
    \/ WorkerPromote /\ UNCHANGED <<hostVars, connVars, svcVars, unitVars>>
    \/ WorkerInsertDownloads /\ UNCHANGED <<hostVars, connVars, svcVars, unitVars>>
    \/ WorkerInsertStatuses /\ UNCHANGED <<hostVars, connVars, svcVars, unitVars>>
    \/ WorkerStart /\ UNCHANGED <<hostVars, connVars, svcVars, unitVars>>
    \/ WorkerInfoReady /\ UNCHANGED <<hostVars, connVars, svcVars, unitVars>>
    \/ \E j \in Ids : JobFailEarly(j) /\ UNCHANGED <<hostVars, connVars, svcVars, unitVars>>
    \/ \E j \in Ids : JobProcessInfo(j) /\ UNCHANGED <<hostVars, connVars, svcVars, unitVars>>
    \/ \E j \in Ids, d \in {"downloading", "finished", "error"} : JobHook(j, d) /\ UNCHANGED <<hostVars, connVars, svcVars, unitVars>>
    \/ \E j \in Ids : JobRaise(j) /\ UNCHANGED <<hostVars, connVars, svcVars, unitVars>>
    \/ \E j \in Ids : JobReturn(j) /\ UNCHANGED <<hostVars, connVars, svcVars, unitVars>>
    \/ \E j \in Ids : CbLockDownloads(j) /\ UNCHANGED <<hostVars, connVars, svcVars, unitVars>>
    \/ \E j \in Ids : CbSetStatus(j) /\ UNCHANGED <<hostVars, connVars, svcVars, unitVars>>
    \/ \E j \in Ids : CbLedger(j) /\ UNCHANGED <<hostVars, connVars, svcVars, unitVars>>
    \/ \E j \in Ids : CbDelDownloads(j) /\ UNCHANGED <<hostVars, connVars, svcVars, unitVars>>
    \/ \E j \in Ids : CbDelStatuses(j) /\ UNCHANGED <<hostVars, connVars, svcVars, unitVars>>


Spec == Init /\ [][Next]_vars

\* the scheduler and the clients that enqueue the media sources 1..NumQueued, with what
\* each request prints; the daemon is not killed
EnqNext ==
    \/ OnSpawnDb /\ UNCHANGED <<hostVars, connVars, svcVars, unitVars>>
    \/ OnSpawnWorker /\ UNCHANGED <<hostVars, connVars, svcVars, unitVars>>
    \/ \E u \in QueuedUrls : Enqueue(u) /\ UNCHANGED <<hostVars, connVars, unitVars>>
    \/ WorkerWait /\ UNCHANGED <<hostVars, connVars, svcVars, unitVars>>
    \/ WorkerClear /\ UNCHANGED <<hostVars, connVars, svcVars, unitVars>>
    \/ WorkerAcquire /\ UNCHANGED <<hostVars, connVars, svcVars, unitVars>>
    \/ WorkerSelect /\ UNCHANGED <<hostVars, connVars, svcVars, unitVars>>
    \/ WorkerPromote /\ UNCHANGED <<hostVars, connVars, svcVars, unitVars>>
    \/ WorkerInsertDownloads /\ UNCHANGED <<hostVars, connVars, svcVars, unitVars>>
    \/ WorkerInsertStatuses /\ UNCHANGED <<hostVars, connVars, svcVars, unitVars>>
    \/ WorkerStart /\ UNCHANGED <<hostVars, connVars, svcVars, unitVars>>
    \/ WorkerInfoReady /\ UNCHANGED <<hostVars, connVars, svcVars, unitVars>>
    \/ \E j \in Ids : JobFailEarly(j) /\ UNCHANGED <<hostVars, connVars, svcVars, unitVars>>
    \/ \E j \in Ids : JobProcessInfo(j) /\ UNCHANGED <<hostVars, connVars, svcVars, unitVars>>
    \/ \E j \in Ids, d \in {"downloading", "finished", "error"} : JobHook(j, d) /\ UNCHANGED <<hostVars, connVars, svcVars, unitVars>>
    \/ \E j \in Ids : JobRaise(j) /\ UNCHANGED <<hostVars, connVars, svcVars, unitVars>>
    \/ \E j \in Ids : JobReturn(j) /\ UNCHANGED <<hostVars, connVars, svcVars, unitVars>>
    \/ \E j \in Ids : CbLockDownloads(j) /\ UNCHANGED <<hostVars, connVars, svcVars, unitVars>>
    \/ \E j \in Ids : CbSetStatus(j) /\ UNCHANGED <<hostVars, connVars, svcVars, unitVars>>
    \/ \E j \in Ids : CbLedger(j) /\ UNCHANGED <<hostVars, connVars, svcVars, unitVars>>
    \/ \E j \in Ids : CbDelDownloads(j) /\ UNCHANGED <<hostVars, connVars, svcVars, unitVars>>
    \/ \E j \in Ids : CbDelStatuses(j) /\ UNCHANGED <<hostVars, connVars, svcVars, unitVars>>

EnqSpec == Init /\ [][EnqNext]_vars

\* the scheduler, its clients, and on_stop called by the main thread
StopNext ==
    \/ OnSpawnDb /\ UNCHANGED <<hostVars, connVars, svcVars, unitVars>>
    \/ OnSpawnWorker /\ UNCHANGED <<hostVars, connVars, svcVars, unitVars>>
    \/ \E u \in QueuedUrls : register_new_download(u) /\ UNCHANGED <<hostVars, connVars, svcVars, unitVars>>
    \/ WorkerWait /\ UNCHANGED <<hostVars, connVars, svcVars, unitVars>>
    \/ WorkerClear /\ UNCHANGED <<hostVars, connVars, svcVars, unitVars>>
    \/ WorkerAcquire /\ UNCHANGED <<hostVars, connVars, svcVars, unitVars>>
    \/ WorkerSelect /\ UNCHANGED <<hostVars, connVars, svcVars, unitVars>>
    \/ WorkerPromote /\ UNCHANGED <<hostVars, connVars, svcVars, unitVars>>
    \/ WorkerInsertDownloads /\ UNCHANGED <<hostVars, connVars, svcVars, unitVars>>
    \/ WorkerInsertStatuses /\ UNCHANGED <<hostVars, connVars, svcVars, unitVars>>
    \/ WorkerStart /\ UNCHANGED <<hostVars, connVars, svcVars, unitVars>>
    \/ WorkerInfoReady /\ UNCHANGED <<hostVars, connVars, svcVars, unitVars>>
    \/ WorkerExit /\ UNCHANGED <<hostVars, connVars, unitVars>>
    \/ \E j \in Ids : JobFailEarly(j) /\ UNCHANGED <<hostVars, connVars, svcVars, unitVars>>
    \/ \E j \in Ids : JobProcessInfo(j) /\ UNCHANGED <<hostVars, connVars, svcVars, unitVars>>
    \/ \E j \in Ids, d \in {"downloading", "finished", "error"} : JobHook(j, d) /\ UNCHANGED <<hostVars, connVars, svcVars, unitVars>>
    \/ \E j \in Ids : JobRaise(j) /\ UNCHANGED <<hostVars, connVars, svcVars, unitVars>>
    \/ \E j \in Ids : JobReturn(j) /\ UNCHANGED <<hostVars, connVars, svcVars, unitVars>>
    \/ \E j \in Ids : CbLockDownloads(j) /\ UNCHANGED <<hostVars, connVars, svcVars, unitVars>>
    \/ \E j \in Ids : CbSetStatus(j) /\ UNCHANGED <<hostVars, connVars, svcVars, unitVars>>
    \/ \E j \in Ids : CbLedger(j) /\ UNCHANGED <<hostVars, connVars, svcVars, unitVars>>
    \/ \E j \in Ids : CbDelDownloads(j) /\ UNCHANGED <<hostVars, connVars, svcVars, unitVars>>
    \/ \E j \in Ids : CbDelStatuses(j) /\ UNCHANGED <<hostVars, connVars, svcVars, unitVars>>
    \/ \E server_options \in {"None", "ServerStartOptions"} : OnSpawnWeb(server_options) /\ UNCHANGED <<schedVars, hostVars, connVars, svcVars, chan, qdb, mig>>
    \/ OnStopCall /\ UNCHANGED <<hostVars, connVars, unitVars>>
    \/ OnStopAcquire /\ UNCHANGED <<hostVars, connVars, unitVars>>
    \/ OnStopCancel /\ UNCHANGED <<hostVars, connVars, unitVars>>
    \/ OnStopSetExit /\ UNCHANGED <<hostVars, connVars, chan, qdb, mig>>
    \/ OnStopJoined /\ UNCHANGED <<hostVars, connVars, unitVars>>

StopSpec == Init /\ [][StopNext]_vars

\* the scheduler, its clients, and a list_current_procs handler
ListNext ==
    \/ OnSpawnDb /\ UNCHANGED <<hostVars, connVars, svcVars, unitVars>>
    \/ OnSpawnWorker /\ UNCHANGED <<hostVars, connVars, svcVars, unitVars>>
    \/ \E u \in QueuedUrls : register_new_download(u) /\ UNCHANGED <<hostVars, connVars, svcVars, unitVars>>
    \/ WorkerWait /\ UNCHANGED <<hostVars, connVars, svcVars, unitVars>>
    \/ WorkerClear /\ UNCHANGED <<hostVars, connVars, svcVars, unitVars>>
    \/ WorkerAcquire /\ UNCHANGED <<hostVars, connVars, svcVars, unitVars>>
    \/ WorkerSelect /\ UNCHANGED <<hostVars, connVars, svcVars, unitVars>>
    \/ WorkerPromote /\ UNCHANGED <<hostVars, connVars, svcVars, unitVars>>
    \/ WorkerInsertDownloads /\ UNCHANGED <<hostVars, connVars, svcVars, unitVars>>
    \/ WorkerInsertStatuses /\ UNCHANGED <<hostVars, connVars, svcVars, unitVars>>
    \/ WorkerStart /\ UNCHANGED <<hostVars, connVars, svcVars, unitVars>>
    \/ WorkerInfoReady /\ UNCHANGED <<hostVars, connVars, svcVars, unitVars>>
    \/ \E j \in Ids : JobFailEarly(j) /\ UNCHANGED <<hostVars, connVars, svcVars, unitVars>>
    \/ \E j \in Ids : JobProcessInfo(j) /\ UNCHANGED <<hostVars, connVars, svcVars, unitVars>>
    \/ \E j \in Ids, d \in {"downloading", "finished", "error"} : JobHook(j, d) /\ UNCHANGED <<hostVars, connVars, svcVars, unitVars>>
    \/ \E j \in Ids : JobRaise(j) /\ UNCHANGED <<hostVars, connVars, svcVars, unitVars>>
    \/ \E j \in Ids : JobReturn(j) /\ UNCHANGED <<hostVars, connVars, svcVars, unitVars>>
    \/ \E j \in Ids : CbLockDownloads(j) /\ UNCHANGED <<hostVars, connVars, svcVars, unitVars>>
    \/ \E j \in Ids : CbSetStatus(j) /\ UNCHANGED <<hostVars, connVars, svcVars, unitVars>>
    \/ \E j \in Ids : CbLedger(j) /\ UNCHANGED <<hostVars, connVars, svcVars, unitVars>>
    \/ \E j \in Ids : CbDelDownloads(j) /\ UNCHANGED <<hostVars, connVars, svcVars, unitVars>>
    \/ \E j \in Ids : CbDelStatuses(j) /\ UNCHANGED <<hostVars, connVars, svcVars, unitVars>>
    \/ ListCall /\ UNCHANGED <<hostVars, connVars, unitVars>>
    \/ ListAcquire /\ UNCHANGED <<hostVars, connVars, unitVars>>
    \/ ListSnapshot /\ UNCHANGED <<hostVars, connVars, unitVars>>
    \/ ListQuery /\ UNCHANGED <<hostVars, connVars, unitVars>>

ListSpec == Init /\ [][ListNext]_vars

\* the scheduler and its clients in a daemon that keeps running
LiveNext ==
    \/ OnSpawnDb /\ UNCHANGED <<hostVars, connVars, svcVars, unitVars>>
    \/ OnSpawnWorker /\ UNCHANGED <<hostVars, connVars, svcVars, unitVars>>
    \/ \E u \in QueuedUrls : register_new_download(u) /\ UNCHANGED <<hostVars, connVars, svcVars, unitVars>>
    \/ WorkerWait /\ UNCHANGED <<hostVars, connVars, svcVars, unitVars>>
    \/ WorkerClear /\ UNCHANGED <<hostVars, connVars, svcVars, unitVars>>
    \/ WorkerAcquire /\ UNCHANGED <<hostVars, connVars, svcVars, unitVars>>
    \/ WorkerSelect /\ UNCHANGED <<hostVars, connVars, svcVars, unitVars>>
    \/ WorkerPromote /\ UNCHANGED <<hostVars, connVars, svcVars, unitVars>>
    \/ WorkerInsertDownloads /\ UNCHANGED <<hostVars, connVars, svcVars, unitVars>>
    \/ WorkerInsertStatuses /\ UNCHANGED <<hostVars, connVars, svcVars, unitVars>>
    \/ WorkerStart /\ UNCHANGED <<hostVars, connVars, svcVars, unitVars>>
    \/ WorkerInfoReady /\ UNCHANGED <<hostVars, connVars, svcVars, unitVars>>
    \/ \E j \in Ids : JobFailEarly(j) /\ UNCHANGED <<hostVars, connVars, svcVars, unitVars>>
    \/ \E j \in Ids : JobProcessInfo(j) /\ UNCHANGED <<hostVars, connVars, svcVars, unitVars>>
    \/ \E j \in Ids, d \in {"downloading", "finished", "error"} : JobHook(j, d) /\ UNCHANGED <<hostVars, connVars, svcVars, unitVars>>
    \/ \E j \in Ids : JobRaise(j) /\ UNCHANGED <<hostVars, connVars, svcVars, unitVars>>
    \/ \E j \in Ids : JobReturn(j) /\ UNCHANGED <<hostVars, connVars, svcVars, unitVars>>
    \/ \E j \in Ids : CbLockDownloads(j) /\ UNCHANGED <<hostVars, connVars, svcVars, unitVars>>
    \/ \E j \in Ids : CbSetStatus(j) /\ UNCHANGED <<hostVars, connVars, svcVars, unitVars>>
    \/ \E j \in Ids : CbLedger(j) /\ UNCHANGED <<hostVars, connVars, svcVars, unitVars>>
    \/ \E j \in Ids : CbDelDownloads(j) /\ UNCHANGED <<hostVars, connVars, svcVars, unitVars>>
    \/ \E j \in Ids : CbDelStatuses(j) /\ UNCHANGED <<hostVars, connVars, svcVars, unitVars>>

\* the steps of the worker thread, of the start of download thread j, of its terminal
\* report, and of its status callback
LiveWorker ==
    /\ \/ WorkerWait \/ WorkerClear \/ WorkerAcquire \/ WorkerSelect \/ WorkerPromote
       \/ WorkerInsertDownloads \/ WorkerInsertStatuses \/ WorkerStart \/ WorkerInfoReady
    /\ UNCHANGED <<hostVars, connVars, svcVars, unitVars>>

LiveJob(j) ==
    /\ JobFailEarly(j) \/ JobProcessInfo(j)
    /\ UNCHANGED <<hostVars, connVars, svcVars, unitVars>>

LiveReport(j) ==
    /\ JobHook(j, "finished") \/ JobHook(j, "error") \/ JobRaise(j) \/ JobReturn(j)
    /\ UNCHANGED <<hostVars, connVars, svcVars, unitVars>>

LiveCallback(j) ==
    /\ \/ CbLockDownloads(j) \/ CbSetStatus(j) \/ CbLedger(j) \/ CbDelDownloads(j)
       \/ CbDelStatuses(j)
    /\ UNCHANGED <<hostVars, connVars, svcVars, unitVars>>

\* every thread keeps being scheduled and is granted a lock that is free again and
\* again; every download thread that has started ends with a terminal report
LiveSpec ==
    /\ Init /\ [][LiveNext]_vars
    /\ SF_vars(LiveWorker)
    /\ \A j \in Ids : WF_vars(LiveJob(j)) /\ SF_vars(LiveReport(j)) /\ SF_vars(LiveCallback(j))

HostNext ==
    \/ \E c \in Clis, cmd \in {"start", "stop", "restart"} : CliInvoke(c, cmd) /\ UNCHANGED <<schedVars, connVars, svcVars, unitVars>>
    \/ \E c \in Clis : StopRead(c) /\ UNCHANGED <<schedVars, connVars, svcVars, unitVars>>
    \/ \E c \in Clis : StopKill(c) /\ UNCHANGED <<schedVars, connVars, svcVars, unitVars>>
    \/ \E c \in Clis : StopWaitExited(c) /\ UNCHANGED <<schedVars, connVars, svcVars, unitVars>>
    \/ \E c \in Clis : StopWaitTimeout(c) /\ UNCHANGED <<schedVars, connVars, svcVars, unitVars>>
    \/ \E c \in Clis : StopFinally(c) /\ UNCHANGED <<schedVars, connVars, svcVars, unitVars>>
    \/ \E c \in Clis : StartCheck(c) /\ UNCHANGED <<schedVars, connVars, svcVars, unitVars>>
    \/ \E c \in Clis : StartSpawn(c) /\ UNCHANGED <<schedVars, connVars, svcVars, unitVars>>
    \/ \E p \in Pids : DaemonWritePid(p) /\ UNCHANGED <<schedVars, connVars, svcVars, unitVars>>
    \/ \E p \in Pids : DaemonBind(p) /\ UNCHANGED <<schedVars, connVars, svcVars, unitVars>>
    \/ \E p \in Pids, bound \in BOOLEAN : DaemonBindInterrupted(p, bound) /\ UNCHANGED <<schedVars, connVars, svcVars, unitVars>>
    \/ \E p \in Pids : DaemonSignal(p) /\ UNCHANGED <<schedVars, connVars, svcVars, unitVars>>
    \/ \E p \in Pids, raised, idle \in BOOLEAN : DaemonFinish(p, raised, idle) /\ UNCHANGED <<schedVars, connVars, svcVars, unitVars>>
    \/ \E p \in Pids : HandleClientEnds(p) /\ UNCHANGED <<schedVars, connVars, svcVars, unitVars>>
    \/ \E p \in Pids : DaemonCrash(p) /\ UNCHANGED <<schedVars, connVars, svcVars, unitVars>>

HostSpec == Init /\ [][HostNext]_vars

\* every daemon process keeps running: it handles a signal that has reached it and
\* goes through the finally clause of run(); nothing is assumed of the clients
HostLiveSpec ==
    /\ Init /\ [][HostNext]_vars
    /\ \A p \in Pids :
          WF_vars((\/ DaemonWritePid(p) \/ DaemonBind(p) \/ DaemonSignal(p)
                   \/ \E raised, idle \in BOOLEAN : DaemonFinish(p, raised, idle))
                  /\ UNCHANGED <<schedVars, connVars, svcVars, unitVars>>)

ConnNext ==
    \/ \E c \in Conns : Accept(c) /\ UNCHANGED <<schedVars, hostVars, svcVars, unitVars>>
    \/ \E c \in Conns, name \in Commands : ClientCall(c, name) /\ UNCHANGED <<schedVars, hostVars, svcVars, unitVars>>
    \/ \E c \in Conns : HandlerHello(c) /\ UNCHANGED <<schedVars, hostVars, svcVars, unitVars>>
    \/ \E c \in Conns : HandlerRecv(c) /\ UNCHANGED <<schedVars, hostVars, svcVars, unitVars>>
    \/ \E c \in Conns : HandlerRecvClosed(c) /\ UNCHANGED <<schedVars, hostVars, svcVars, unitVars>>
    \/ \E c \in Conns : HandlerTagStdout(c) /\ UNCHANGED <<schedVars, hostVars, svcVars, unitVars>>
    \/ \E c \in Conns : HandlerTagStderr(c) /\ UNCHANGED <<schedVars, hostVars, svcVars, unitVars>>
    \/ \E c \in Conns, stream \in {"stdout", "stderr"} : HandlerWrite(c, stream) /\ UNCHANGED <<schedVars, hostVars, svcVars, unitVars>>
    \/ \E stream \in {"stdout", "stderr"} : OtherWrite(stream) /\ UNCHANGED <<schedVars, hostVars, svcVars, unitVars>>
    \/ \E c \in Conns : HandlerReturn(c) /\ UNCHANGED <<schedVars, hostVars, svcVars, unitVars>>
    \/ \E c \in Conns : HandlerRaise(c) /\ UNCHANGED <<schedVars, hostVars, svcVars, unitVars>>
    \/ \E c \in Conns : HandlerUntagStdout(c) /\ UNCHANGED <<schedVars, hostVars, svcVars, unitVars>>
    \/ \E c \in Conns : HandlerUntagStderr(c) /\ UNCHANGED <<schedVars, hostVars, svcVars, unitVars>>
    \/ \E c \in Conns : HandlerSend(c) /\ UNCHANGED <<schedVars, hostVars, svcVars, unitVars>>

ConnSpec == Init /\ [][ConnNext]_vars
\* one connection byte by byte: the handler thread, a thread that serves no client,
\* and the client that reads the stream
ChanNext ==
    \/ Connect /\ UNCHANGED <<schedVars, hostVars, connVars, svcVars, qdb, mig, web>>
    \/ \E so, se \in BOOLEAN : HandleRecv(so, se) /\ UNCHANGED <<schedVars, hostVars, connVars, svcVars, qdb, mig, web>>
    \/ \E p \in {"stdout", "stderr"} : tag_connection(p) /\ UNCHANGED <<schedVars, hostVars, connVars, svcVars, qdb, mig, web>>
    \/ \E t \in {"handler", "other"}, p \in {"stdout", "stderr"}, n \in 0..MaxText : write(t, p, n) /\ UNCHANGED <<schedVars, hostVars, connVars, svcVars, qdb, mig, web>>
    \/ \E t \in {"handler", "other"} : sendall_data(t) /\ UNCHANGED <<schedVars, hostVars, connVars, svcVars, qdb, mig, web>>
    \/ \E p \in {"stdout", "stderr"} : remove_connection(p) /\ UNCHANGED <<schedVars, hostVars, connVars, svcVars, qdb, mig, web>>
    \/ \E n \in 0..MaxText : SendResult(n) /\ UNCHANGED <<schedVars, hostVars, connVars, svcVars, qdb, mig, web>>
    \/ Disconnect /\ UNCHANGED <<schedVars, hostVars, connVars, svcVars, qdb, mig, web>>
    \/ \E k \in 1..8 : recv(k) /\ UNCHANGED <<schedVars, hostVars, connVars, svcVars, qdb, mig, web>>
    \/ recv_closed /\ UNCHANGED <<schedVars, hostVars, connVars, svcVars, qdb, mig, web>>

ChanSpec == Init /\ [][ChanNext]_vars

\* the ledger as the two listings of the complete items read it
QueryNext ==
    \/ \E id \in 1..NumRows, st \in Statuses, tu, ti \in 1..MaxTime, tg \in SUBSET {"a", "b"} : LedgerWrite(id, st, tu, ti, tg) /\ UNCHANGED <<schedVars, hostVars, connVars, svcVars, chan, mig, web>>
    \/ \E tags \in SUBSET {"a", "b"} : list_media(tags) /\ UNCHANGED <<schedVars, hostVars, connVars, svcVars, chan, mig, web>>
    \/ get_media_list /\ UNCHANGED <<schedVars, hostVars, connVars, svcVars, chan, mig, web>>

QuerySpec == Init /\ [][QueryNext]_vars

\* the migration tool run again and again on one database file
MigNext ==
    \/ \E up, down \in SUBSET (1..NumVersions) : WriteVersions(up, down) /\ UNCHANGED <<schedVars, hostVars, connVars, svcVars, chan, qdb, web>>
    \/ \E target_version \in 0..NumVersions, has_user_data, copied \in BOOLEAN : migrate_to_version(target_version, has_user_data, copied) /\ UNCHANGED <<schedVars, hostVars, connVars, svcVars, chan, qdb, web>>
    \/ apply_migration_begin /\ UNCHANGED <<schedVars, hostVars, connVars, svcVars, chan, qdb, web>>
    \/ \E ok \in BOOLEAN : apply_migration_end(ok) /\ UNCHANGED <<schedVars, hostVars, connVars, svcVars, chan, qdb, web>>
    \/ migrate_done /\ UNCHANGED <<schedVars, hostVars, connVars, svcVars, chan, qdb, web>>

MigSpec == Init /\ [][MigNext]_vars

PathNext ==
    \/ \E extractor \in {"example", "youtube"}, i \in 1..NumSources : RegisterPath(extractor, <<"v1", "v2", "v3">>[i]) /\ UNCHANGED <<schedVars, hostVars, connVars, svcVars, chan, qdb, mig>>
    \/ \E extractor \in {"example", "youtube"}, i \in 1..NumSources : DownloadInto(extractor, <<"v1", "v2", "v3">>[i]) /\ UNCHANGED <<schedVars, hostVars, connVars, svcVars, chan, qdb, mig>>
    \/ \E r \in web.rows : FinishedPath(r.id) /\ UNCHANGED <<schedVars, hostVars, connVars, svcVars, chan, qdb, mig>>

PathSpec == Init /\ [][PathNext]_vars

RegNext ==
    \E i \in 1..NumNames, func \in 1..2 : command(<<"enqueue", "list", "stop", "status">>[i], func) /\ UNCHANGED <<schedVars, hostVars, connVars, svcVars, chan, qdb, mig>>

RegSpec == Init /\ [][RegNext]_vars

====
